---------------------------- MODULE Spec2Model ----------------------------
(***************************************************************************)
(* A model of the runtime engine of twitch-miner-go: the PubSub            *)
(* connection pool (internal/pubsub: WebSocketPool, WebSocketClient), the  *)
(* event dispatcher that lives in the pool, and the parts of the API       *)
(* client and of the broadcaster model the dispatcher calls.               *)
(*                                                                         *)
(* The module holds several specifications over one set of variables:      *)
(*   SpecPool      bin-packing of topics, reconnect and close              *)
(*   SpecSession   the errors and RECONNECT frames a subscribed session    *)
(*                 meets and the supervisor's shutdown (FairSpecSession    *)
(*                 adds the fairness of the goroutines)                    *)
(*   SpecFeed      MESSAGE frames, their de-duplication and the clock      *)
(*   SpecDispatch  the handlers that mutate broadcasters and predictions   *)
(* Each specification leaves the variables of the others unchanged.        *)
(***************************************************************************)
EXTENDS Integers, Sequences, FiniteSets, TLC

VARIABLES
    \* ---- WebSocketPool / WebSocketClient
    clients,          \* p.clients: indices into ws, in creation order
    ws,               \* every WebSocketClient ever created, by creation order
    recon,            \* the running reconnect() goroutines
    nextTopic,        \* how many topics of subscribeToTopics have been submitted
    inFlight,         \* Submit calls made while a reconnect goroutine ran
    reconnectFrames,  \* RECONNECT frames received so far
    dialFailures,     \* dial attempts that failed so far
    poolClosed,       \* WebSocketPool.Close has returned
    afterClose,       \* kinds of wire traffic seen after Close returned
    listenCount,      \* LISTEN frames that reached the wire, per topic string
    subscribed,       \* topic strings for which Submit returned nil
    \* ---- Miner (the supervisor)
    ctxDone,          \* the context handed to Run is cancelled
    minerStopped,     \* Miner.stop has run
    watcher,          \* the MinuteWatcher and its loop goroutine
    \* ---- the frames read by the sessions
    now,              \* the clock, in ticks
    frameLog,         \* the MESSAGE frames read so far, in order of arrival
    wire,             \* per session, the MESSAGE frames sent to it and not yet read
    serverSent,       \* frames the server has sent of its own accord
    \* ---- the dispatcher and what it mutates
    streamers,        \* p.streamers, by channel id
    handling,         \* per session, the handler its reader is in the middle of
    \* ---- the Twitch side
    balance,          \* the points the server holds per channel
    contributed,      \* the points the server counts per community goal
    serverEvent,      \* the status the server holds per prediction event
    \* ---- predictions
    predictions,      \* p.predictions, by event id
    bets,             \* the deferred-bet goroutines
    submissions,      \* the MakePrediction requests posted so far
    betCalc,          \* a Bet (models.Bet) on its way from its outcomes to its decision
    \* ---- the start of the miner and the topic strings
    startup,          \* Miner.Run from loadStreamers to startMining
    topicIO,          \* a topic on its way through Topic.String and ParseTopic
    drops             \* the DropsTracker: its campaigns, and whether a pass just ended

poolVars == <<clients, ws, recon, nextTopic, inFlight, reconnectFrames,
              dialFailures, poolClosed, afterClose, listenCount, subscribed>>

minerVars == <<ctxDone, minerStopped, watcher>>

feedVars == <<now, frameLog, wire, serverSent>>

dispVars == <<streamers, handling, balance, contributed>>

betVars == <<serverEvent, predictions, bets, submissions, betCalc>>

auxVars == <<startup, topicIO, drops>>

vars == <<poolVars, minerVars, feedVars, dispVars, betVars, auxVars>>

-----------------------------------------------------------------------------
(* Bounds of the model                                                     *)

NumStreamers == 10
MaxSubmitsDuringReconnect == 2
MaxReconnectFrames == 1
MaxDialFailures == 1
MaxFrames == 3
TicksPerSecond == 2
MaxMinutes == 3
NumWatched == 4
MaxCycles == 1
MaxFailedChecks == 1
MaxRaidFrames == 3
InitialPoints == 20
PointGain == 10
PointCost == 10
GoalAmount == 15

(* Program constants                                                       *)

MaxTopicsPerConnection == 50
MaxSimultaneousStreams == 2

-----------------------------------------------------------------------------
(* Topics (pubsub topics file)                                             *)

TopicCommunityPointsUser == "community-points-user-v1"
TopicPredictionsUser == "predictions-user-v1"
TopicVideoPlaybackByID == "video-playback-by-id"
TopicRaid == "raid"
TopicPredictionsChannel == "predictions-channel-v1"
TopicCommunityMomentsChannel == "community-moments-channel-v1"
TopicCommunityPointsChannel == "community-points-channel-v1"

NewTopic(topicType, channelID) == [Type |-> topicType, ChannelID |-> channelID]

TopicString(t) == t.Type \o "." \o t.ChannelID

IsUserTopic(t) == t.Type = TopicCommunityPointsUser \/ t.Type = TopicPredictionsUser

UserID == "u"

ChannelIDOf(s) == "c" \o ToString(s)

ChannelKinds == <<TopicVideoPlaybackByID, TopicRaid, TopicPredictionsChannel,
                  TopicCommunityMomentsChannel, TopicCommunityPointsChannel>>

NumTopics == 2 + 5 * NumStreamers

(* The order in which Miner.subscribeToTopics submits the topics: the two   *)
(* user topics, then for every streamer its channel topics (all toggles on).*)
subscribeToTopics ==
    [k \in 1..NumTopics |->
        IF k = 1 THEN NewTopic(TopicCommunityPointsUser, UserID)
        ELSE IF k = 2 THEN NewTopic(TopicPredictionsUser, UserID)
        ELSE NewTopic(ChannelKinds[((k - 3) % 5) + 1], ChannelIDOf(((k - 3) \div 5) + 1))]

(* The model lets the outside events (a repeated Submit, a RECONNECT frame, *)
(* Close) happen only at these points of the initial subscription: its     *)
(* start, around a full first client, and its end.                         *)
EventPoints == {1, MaxTopicsPerConnection - 1, MaxTopicsPerConnection,
                MaxTopicsPerConnection + 1, NumTopics}

AtEventPoint == nextTopic \in EventPoints

TopicStrings == {TopicString(subscribeToTopics[k]) : k \in 1..NumTopics}

-----------------------------------------------------------------------------
(* WebSocketClient                                                         *)

Minute == 60 * TicksPerSecond

NewWebSocketClient ==
    [topics |-> <<>>, pendingTopics |-> <<>>,
     isOpened |-> FALSE, isClosed |-> FALSE, isReconnecting |-> FALSE,
     forcedClose |-> FALSE,
     conn |-> "nil",          \* "nil", "open" or "closed" (a closed or broken transport)
     listening |-> {},        \* topic strings LISTENed on the current transport
     stopClosed |-> FALSE,    \* the current stopChan is closed
     readers |-> 0,           \* running readLoop goroutines
     pingers |-> 0,           \* running pingLoop goroutines
     lastMsgID |-> "",
     lastMsgTime |-> 0,       \* read only when lastMsgID is set
     lastPong |-> 0,          \* read only by the pingLoop, which Connect starts
     nextCheck |-> 0,         \* the next tick of the checkTicker of the pingLoop
     reopened |-> FALSE,      \* a reconnect has ended in a successful reopen
     assigned |-> {},         \* topic strings Submit has handed to this client
     onError |-> {},          \* the errors this client has passed to onError
     trigger |-> {},          \* read errors, ERR_BADAUTH and RECONNECT met so far
     reconnects |-> 0]        \* reconnect() goroutines started for this client

TopicCount(w) == Len(w.topics)

HasTopic(w, topic) ==
    \E k \in 1..Len(w.topics) : TopicString(w.topics[k]) = TopicString(topic)

(* send: nothing is written on a nil connection, and a write on a closed    *)
(* transport returns an error that Listen and ping drop.                    *)
SendReaches(w) == w.conn = "open"

(* Listen: whether the call puts a LISTEN frame on the wire.                *)
ListenSends(w, topic) == ~HasTopic(w, topic) /\ w.isOpened /\ SendReaches(w)

Listen(w, topic) ==
    IF HasTopic(w, topic) THEN w
    ELSE IF ~w.isOpened
         THEN [w EXCEPT !.topics = Append(@, topic),
                        !.pendingTopics = Append(@, topic)]
         ELSE [w EXCEPT !.topics = Append(@, topic),
                        !.listening = IF SendReaches(w)
                                      THEN @ \cup {TopicString(topic)} ELSE @]

(* Connect's loop "for _, topic := range ws.pendingTopics { ws.Listen(topic) }": *)
(* Listen appends a topic unless the client already has one of its string,  *)
(* so the loop appends, in order, the pending topics that are neither in    *)
(* topics nor earlier in pending.  ListenAllKept is their indices.          *)
ListenAllKept(w, pending) ==
    {k \in 1..Len(pending) :
        /\ ~HasTopic(w, pending[k])
        /\ \A j \in 1..(k - 1) : TopicString(pending[j]) # TopicString(pending[k])}

ListenAllAdded(w, pending) ==
    LET kept == ListenAllKept(w, pending)
    IN [m \in 1..Cardinality(kept) |->
            pending[CHOOSE k \in kept : Cardinality({j \in kept : j <= k}) = m]]

(* The topic strings the loop puts on the wire as LISTEN frames.            *)
ListenAllSent(w, pending) ==
    IF w.isOpened /\ SendReaches(w)
    THEN {TopicString(pending[k]) : k \in ListenAllKept(w, pending)}
    ELSE {}

ListenAll(w, pending) ==
    [w EXCEPT !.topics = @ \o ListenAllAdded(w, pending),
              !.pendingTopics = IF w.isOpened THEN @
                                ELSE @ \o ListenAllAdded(w, pending),
              !.listening = @ \cup ListenAllSent(w, pending)]

CountFrames(count, sent) ==
    [t \in DOMAIN count |-> IF t \in sent THEN count[t] + 1 ELSE count[t]]

(* Connect, lines 56-59: the flags it resets before dialing.                *)
ConnectReset(w) == [w EXCEPT !.isReconnecting = FALSE, !.isClosed = FALSE]

(* Connect, lines 70-74: a successful dial installs a fresh transport.      *)
ConnectDialed(w) ==
    [w EXCEPT !.conn = "open", !.isOpened = TRUE, !.listening = {}, !.lastPong = now]

(* Connect, lines 76-84: re-Listen the pending topics, clear them, start    *)
(* the reader and the heartbeater.                                          *)
ConnectFinish(w) ==
    [ListenAll(w, w.pendingTopics) EXCEPT
        !.pendingTopics = <<>>, !.readers = @ + 1, !.pingers = @ + 1,
        !.nextCheck = now + Minute]

(* Close of one client.                                                     *)
ClientClose(w) ==
    [w EXCEPT !.forcedClose = TRUE, !.isClosed = TRUE, !.stopClosed = TRUE,
              !.conn = IF @ = "nil" THEN "nil" ELSE "closed",
              !.listening = {},
              !.readers = 0, !.pingers = 0]

-----------------------------------------------------------------------------
(* Broadcasters (models.Streamer) and their community goals                *)

NumClients == (NumTopics + MaxTopicsPerConnection - 1) \div MaxTopicsPerConnection

(* The first broadcaster whose topics are split over two sessions: its      *)
(* first channel topics are the last ones of the first session.             *)
SplitStreamer == ((MaxTopicsPerConnection - 2) \div 5) + 1

Broadcasters == {ChannelIDOf(SplitStreamer)}

Goals == {"g1", "g2"}

NoGoal == [GoalID |-> ""]

CommunityGoalStarted == "STARTED"
CommunityGoalEnded == "ENDED"

(* A time.Time: the zero value, or a reading of the clock.                   *)
ZeroTime == [set |-> FALSE, at |-> 0]

TimeAt(t) == [set |-> TRUE, at |-> t]

IsZero(t) == ~t.set

(* time.Since(t) < d and time.Since(t) > d at clock reading n; the zero     *)
(* time lies further back than any duration.                                *)
SinceLess(t, d, n) == t.set /\ n - t.at < d

SinceMore(t, d, n) == ~t.set \/ n - t.at > d

(* models.NewStream: the record of the stream; BroadcastID stands for the   *)
(* metadata Stream.Update stores.                                           *)
NewStream ==
    [WatchStreakMissing |-> TRUE, MinuteWatched |-> 0, minuteWatchedUpdated |-> ZeroTime,
     BroadcastID |-> "", Game |-> "", CampaignIDs |-> {}, Campaigns |-> {},
     lastUpdate |-> ZeroTime]

(* Stream.UpdateRequired at clock reading n.                                *)
UpdateRequired(stream, n) ==
    IsZero(stream.lastUpdate) \/ n - stream.lastUpdate.at >= 2 * Minute

(* Stream.InitWatchStreak *)
InitWatchStreak(stream) ==
    [stream EXCEPT !.WatchStreakMissing = TRUE, !.MinuteWatched = 0,
                   !.minuteWatchedUpdated = ZeroTime]

(* Stream.UpdateMinuteWatched at clock reading n, in whole minutes.         *)
UpdateMinuteWatched(stream, n) ==
    [stream EXCEPT !.MinuteWatched = IF IsZero(stream.minuteWatchedUpdated) THEN @
                                     ELSE @ + (n - stream.minuteWatchedUpdated.at) \div Minute,
                   !.minuteWatchedUpdated = TimeAt(n)]

(* DefaultBetSettings, with a percentage that lets the broadcasters of the  *)
(* model reach the smallest bet.                                            *)
BetSettings ==
    [Strategy |-> "SMART", Percentage |-> 50, PercentageGap |-> 20, MaxPoints |-> 50000,
     MinimumPoints |-> 0, StealthMode |-> FALSE, Delay |-> 6, DelayMode |-> "FROM_END"]

(* models.StreamerSettings: the toggles the model follows are on.           *)
StreamerSettings ==
    [MakePredictions |-> TRUE, ClaimDrops |-> TRUE, FollowRaid |-> TRUE, Bet |-> BetSettings]

NewStreamer ==
    [Settings |-> StreamerSettings, ChannelPoints |-> 0, IsOnline |-> FALSE,
     StreamUpTime |-> ZeroTime, OnlineAt |-> ZeroTime, OfflineAt |-> ZeroTime,
     Stream |-> NewStream,
     CommunityGoals |-> [g \in Goals |-> NoGoal],
     Raid |-> "",             \* the RaidID of streamer.Raid, "" for nil
     joinRaidPosts |-> <<>>,  \* the raid ids of the JoinRaid requests posted
     probe |-> "none"]        \* the GetStreamInfo request of the latest online check:
                              \* "none" (not issued), "live" or "offline"

SetOffline(st, n) ==
    IF st.IsOnline
    THEN [st EXCEPT !.OfflineAt = TimeAt(n), !.IsOnline = FALSE]
    ELSE st

SetOnline(st, n) ==
    IF ~st.IsOnline
    THEN [st EXCEPT !.OnlineAt = TimeAt(n), !.IsOnline = TRUE,
                    !.Stream = InitWatchStreak(@)]
    ELSE st

StreamUpElapsed(st, n) == IsZero(st.StreamUpTime) \/ SinceMore(st.StreamUpTime, 2 * Minute, n)

GetIsOnline(st) == st.IsOnline

GetChannelPoints(st) == st.ChannelPoints

SetChannelPoints(st, points) == [st EXCEPT !.ChannelPoints = points]

(* A variant of AddCommunityGoal that charges the contribution as soon as   *)
(* the goal is stored; the points property must tell it from the original.  *)
AddCommunityGoalCharged(st, goal) ==
    [st EXCEPT !.CommunityGoals[goal.GoalID] = goal,
               !.ChannelPoints = IF goal.GoalAmount - goal.PointsContributed < @
                                 THEN @ - (goal.GoalAmount - goal.PointsContributed)
                                 ELSE 0]

AddCommunityGoal(st, goal) == [st EXCEPT !.CommunityGoals[goal.GoalID] = goal]

UpdateCommunityGoal(st, goal) == [st EXCEPT !.CommunityGoals[goal.GoalID] = goal]

DeleteCommunityGoal(st, goalID) == [st EXCEPT !.CommunityGoals[goalID] = NoGoal]

AmountLeft(goal) == goal.GoalAmount - goal.PointsContributed

Min(a, b) == IF a < b THEN a ELSE b

Idle == [pc |-> "idle"]

(* Prediction events (models.EventPrediction)                              *)

Events == {"e1"}

NoEvent == [EventID |-> ""]

PredictionActive == "ACTIVE"
PredictionLocked == "LOCKED"
PredictionResolved == "RESOLVED"
PredictionCanceled == "CANCELED"

NewEventPrediction(s, eventID, createdAt, predictionWindowSeconds, status) ==
    [Streamer |-> s, EventID |-> eventID, CreatedAt |-> createdAt,
     PredictionWindowSeconds |-> predictionWindowSeconds, Status |-> status,
     BetPlaced |-> FALSE, BetConfirmed |-> FALSE, Result |-> "",
     historyUpdates |-> 0]    \* the results of the event entered in Streamer.History

(* Streamer.GetPredictionWindow *)
GetPredictionWindow(settings, predictionWindowSeconds) ==
    IF settings.DelayMode = "FROM_START"
    THEN Min(settings.Delay, predictionWindowSeconds)
    ELSE IF settings.DelayMode = "FROM_END"
    THEN IF predictionWindowSeconds - settings.Delay < 0
         THEN 0 ELSE predictionWindowSeconds - settings.Delay
    ELSE IF settings.DelayMode = "PERCENTAGE"
    THEN predictionWindowSeconds * settings.Delay
    ELSE predictionWindowSeconds

(* EventPrediction.ClosingBetAfter, in ticks of the clock.                  *)
ClosingBetAfter(event, timestamp) ==
    event.PredictionWindowSeconds * TicksPerSecond - (timestamp - event.CreatedAt)

(* models.Bet: the outcomes of a prediction and the decision                *)

(* NewOutcomeFromGQL: an outcome as the event-created frame gives it; the   *)
(* percentages and the odds, kept in hundredths, start at zero.             *)
NewOutcomeFromGQL(data) ==
    [ID |-> data.id, TotalUsers |-> data.total_users, TotalPoints |-> data.total_points,
     TopPoints |-> 0, PercentageUsers |-> 0, Odds |-> 0, OddsPercentage |-> 0]

NoDecision == [Choice |-> -1, Amount |-> 0, ID |-> "", panic |-> FALSE]

(* models.NewBet *)
NewBetOf(outcomes, settings) ==
    [Outcomes |-> [i \in 1..Len(outcomes) |-> NewOutcomeFromGQL(outcomes[i])],
     Settings |-> settings, TotalUsers |-> 0, TotalPoints |-> 0,
     Decision |-> NoDecision, pc |-> "new", updates |-> 0, submitted |-> FALSE,
     points |-> 0]            \* the balance MakePrediction passed to Calculate

(* roundFloat(a / b, 2) in hundredths, for a >= 0 and b > 0.                *)
RoundHundredths(a, b) == (2 * 100 * a + b) \div (2 * b)

RECURSIVE SumOf(_, _, _)
SumOf(outcomes, field, i) ==
    IF i > Len(outcomes) THEN 0 ELSE outcomes[i][field] + SumOf(outcomes, field, i + 1)

(* UpdateOutcomes, lines 291-303: the largest stake among the top          *)
(* predictors from the i-th on, zero when there is none.                    *)
RECURSIVE MaxPoints(_, _)
MaxPoints(topPredictors, i) ==
    IF i > Len(topPredictors) THEN 0
    ELSE LET rest == MaxPoints(topPredictors, i + 1)
         IN IF topPredictors[i] > rest THEN topPredictors[i] ELSE rest

(* Bet.UpdateOutcomes *)
UpdateOutcomes(b, outcomes) ==
    LET taken == [i \in 1..Len(b.Outcomes) |->
                    IF i <= Len(outcomes)
                    THEN [b.Outcomes[i] EXCEPT
                            !.TotalUsers = outcomes[i].total_users,
                            !.TotalPoints = outcomes[i].total_points,
                            !.TopPoints = IF Len(outcomes[i].top_predictors) > 0
                                          THEN MaxPoints(outcomes[i].top_predictors, 1)
                                          ELSE @]
                    ELSE b.Outcomes[i]]
        users == SumOf(taken, "TotalUsers", 1)
        points == SumOf(taken, "TotalPoints", 1)
        rated(o) ==
            LET odds == IF o.TotalPoints > 0 THEN RoundHundredths(points, o.TotalPoints)
                        ELSE o.Odds
            IN [o EXCEPT !.PercentageUsers = RoundHundredths(o.TotalUsers * 100, users),
                         !.Odds = odds,
                         !.OddsPercentage = IF o.TotalPoints > 0
                                            THEN RoundHundredths(100 * 100, odds) ELSE @]
    IN [b EXCEPT !.TotalUsers = users, !.TotalPoints = points,
                 !.Outcomes = IF users > 0 /\ points > 0
                              THEN [i \in 1..Len(taken) |-> rated(taken[i])]
                              ELSE taken]

(* Bet.getOutcomeValue for a Go index (from 0).                             *)
getOutcomeValue(b, index, key) ==
    IF index >= Len(b.Outcomes) THEN 0 ELSE b.Outcomes[index + 1][key]

(* Bet.returnChoice, the loop from index i on.                              *)
RECURSIVE returnChoiceFrom(_, _, _, _)
returnChoiceFrom(b, key, i, largest) ==
    IF i >= Len(b.Outcomes) THEN largest
    ELSE returnChoiceFrom(b, key, i + 1,
            IF getOutcomeValue(b, i, key) > getOutcomeValue(b, largest, key)
            THEN i ELSE largest)

returnChoice(b, key) == returnChoiceFrom(b, key, 1, 0)

(* Bet.returnNumberChoice *)
returnNumberChoice(b, number) == IF Len(b.Outcomes) > number THEN number ELSE 0

NumberStrategies ==
    [k \in 0..7 |-> <<"NUMBER_1", "NUMBER_2", "NUMBER_3", "NUMBER_4",
                      "NUMBER_5", "NUMBER_6", "NUMBER_7", "NUMBER_8">>[k + 1]]

Abs(x) == IF x < 0 THEN 0 - x ELSE x

(* SMART with the test of the gap including equality.                       *)
SmartTakesOddsInclusive(difference, gap) == difference <= gap * 100

(* Calculate, line 446: whether SMART goes by the odds; the difference of   *)
(* the percentages is in hundredths.                                        *)
SmartTakesOdds(difference, gap) == difference < gap * 100

(* Calculate, the switch on the strategy.                                   *)
StrategyChoice(b) ==
    LET strategy == b.Settings.Strategy IN
    IF strategy = "MOST_VOTED" THEN returnChoice(b, "TotalUsers")
    ELSE IF strategy = "HIGH_ODDS" THEN returnChoice(b, "Odds")
    ELSE IF strategy = "PERCENTAGE" THEN returnChoice(b, "OddsPercentage")
    ELSE IF strategy = "SMART_MONEY" THEN returnChoice(b, "TopPoints")
    ELSE IF \E k \in 0..7 : NumberStrategies[k] = strategy
    THEN returnNumberChoice(b, CHOOSE k \in 0..7 : NumberStrategies[k] = strategy)
    ELSE IF strategy = "SMART"
    THEN IF Len(b.Outcomes) >= 2
         THEN IF SmartTakesOdds(Abs(b.Outcomes[1].PercentageUsers
                                      - b.Outcomes[2].PercentageUsers),
                                b.Settings.PercentageGap)
              THEN returnChoice(b, "Odds")
              ELSE returnChoice(b, "TotalUsers")
         ELSE -1
    ELSE -1

(* Bet.Calculate, the amount of a decision whose choice is one of the       *)
(* outcomes (no stealth mode).                                              *)
(* Calculate, lines 457-460, without the cap of MaxPoints.                  *)
CalculateAmountNoCap(settings, points) == (points * settings.Percentage) \div 100

CalculateAmount(settings, points) ==
    Min((points * settings.Percentage) \div 100, settings.MaxPoints)

(* The test of the choice without its upper limit.                          *)
ChoiceInRangeNoLimit(choice, n) == choice >= 0

(* Calculate, line 454 *)
ChoiceInRange(choice, n) == choice >= 0 /\ choice < n

(* Bet.Calculate; reduce is int(rand.Float64()*4 + 1).  Indexing the        *)
(* outcomes outside their range panics.                                     *)
Calculate(b, points, reduce) ==
    LET choice == StrategyChoice(b)
        n == Len(b.Outcomes)
    IN IF ~ChoiceInRange(choice, n) THEN [NoDecision EXCEPT !.Choice = choice]
       ELSE IF choice + 1 \notin 1..n THEN [NoDecision EXCEPT !.Choice = choice, !.panic = TRUE]
       ELSE LET chosen == b.Outcomes[choice + 1]
                amount == CalculateAmount(b.Settings, points)
            IN [Choice |-> choice,
                Amount |-> IF b.Settings.StealthMode /\ amount >= chosen.TopPoints
                           THEN chosen.TopPoints - reduce ELSE amount,
                ID |-> chosen.ID, panic |-> FALSE]

(* UpdateStream, line 233: the stream is probed only when its metadata are  *)
(* two minutes old or were never fetched.                                   *)
UpdateDue(st, n) == UpdateRequired(st.Stream, n)

(* TwitchClient.UpdateStream at clock reading n when GetStreamInfo returns  *)
(* a live stream: Stream.Update stores the metadata of the broadcast on air *)
(* and the time.                                                            *)
UpdateStream(st, n) ==
    [st EXCEPT !.Stream.BroadcastID = "b1", !.Stream.lastUpdate = TimeAt(n)]

(* TwitchClient.CheckStreamerOnline at clock reading n; spadeOk is the      *)
(* outcome of GetSpadeURL and streamOk tells whether GetStreamInfo, if it   *)
(* is requested, returns a live stream.  UpdateStream returns nil without a *)
(* request when no update is required.                                      *)
CheckStreamerOnline(st, n, spadeOk, streamOk) ==
    IF SinceLess(st.OfflineAt, Minute, n) THEN [st EXCEPT !.probe = "none"]
    ELSE LET due == UpdateDue(st, n)
             updated == IF due THEN [UpdateStream(st, n) EXCEPT !.probe = "live"]
                        ELSE [st EXCEPT !.probe = "none"]
         IN IF ~GetIsOnline(st)
            THEN IF ~spadeOk THEN [SetOffline(st, n) EXCEPT !.probe = "none"]
                 ELSE IF due /\ ~streamOk
                 THEN [SetOffline(st, n) EXCEPT !.probe = "offline"]
                 ELSE SetOnline(updated, n)
            ELSE IF due /\ ~streamOk
                 THEN [SetOffline(st, n) EXCEPT !.probe = "offline"]
                 ELSE updated

(* The broadcasters as loadStreamers and the first online check of          *)
(* startMining leave them: LoadChannelPointsContext has stored the balance  *)
(* the server reported.                                                     *)
LoadedStreamer(online) ==
    IF online
    THEN CheckStreamerOnline(SetChannelPoints(NewStreamer, InitialPoints), 0, TRUE, TRUE)
    ELSE SetChannelPoints(NewStreamer, InitialPoints)

(* Miner.Run has loaded the broadcasters and started its components.       *)
Started == [pc |-> "mining"]

NoTopicIO == [pc |-> "none"]

(* NewDropsTracker: no campaigns yet; synced tells that updateStreamerCampaigns *)
(* has run and nothing has changed since.                                   *)
NewDropsTracker == [campaigns |-> {}, synced |-> FALSE]

InitBets ==
    /\ serverEvent = [e \in Events |-> "none"]
    /\ predictions = [e \in Events |-> NoEvent]
    /\ bets = <<>>
    /\ submissions = <<>>
    /\ betCalc = NewBetOf(<<>>, BetSettings)
    /\ startup = Started
    /\ topicIO = NoTopicIO
    /\ drops = NewDropsTracker

InitStreamers(onlines) ==
    /\ streamers \in [Broadcasters -> {LoadedStreamer(online) : online \in onlines}]
    /\ handling = [i \in 1..NumClients |-> Idle]
    /\ balance = [s \in Broadcasters |-> InitialPoints]
    /\ contributed = [s \in Broadcasters |-> [g \in Goals |-> 0]]

InitFeed ==
    /\ now = 0
    /\ frameLog = <<>>
    /\ wire = [i \in 1..NumClients |-> <<>>]
    /\ serverSent = 0

-----------------------------------------------------------------------------
(* MinuteWatcher: the selection                                            *)

NewMinuteWatcher(streamerList, priorities) ==
    [streamers |-> streamerList, priorities |-> priorities, pc |-> "idle",
     cycle |-> 0, online |-> <<>>, walked |-> <<>>, selection |-> <<>>,
     watching |-> <<>>, next |-> 0, beacons |-> <<>>]

Priorities ==
    {"STREAK", "DROPS", "ORDER", "SUBSCRIBED", "POINTS_ASCENDING", "POINTS_DESCENDING"}

(* The indices of set S in rising order of key (a function on S with        *)
(* distinct values).                                                        *)
RECURSIVE SortedBy(_, _)
SortedBy(S, key) ==
    IF S = {} THEN <<>>
    ELSE LET m == CHOOSE x \in S : \A y \in S : key[x] <= key[y]
         IN <<m>> \o SortedBy(S \ {m}, key)

Elems(seq) == {seq[k] : k \in 1..Len(seq)}

(* getOnlineStreamers *)
getOnlineStreamers(streamerList) ==
    SortedBy({i \in 1..Len(streamerList) : streamerList[i].IsOnline},
             [i \in 1..Len(streamerList) |-> i])

(* sort.Slice is not stable: among equal keys the order is any; tie gives   *)
(* the rank the sort happens to leave each index with.                      *)
SortSlice(indexes, keyOf, tie) ==
    SortedBy(Elems(indexes),
             [i \in Elems(indexes) |-> keyOf[i] * (Len(tie) + 1) + tie[i]])

(* The candidates of one priority, in the order its loop visits them.       *)
Candidates(priority, onlineIndexes, streamerList, tie) ==
    LET all == 1..Len(streamerList)
        only(cond(_)) == SelectSeq(onlineIndexes, cond)
        isStreak(i) == streamerList[i].StreakCondition
        isDrops(i) == streamerList[i].DropsCondition
        hasMultiplier(i) == streamerList[i].Multiplier > 0
    IN IF priority = "ORDER" THEN onlineIndexes
       ELSE IF priority = "POINTS_ASCENDING"
       THEN SortSlice(onlineIndexes, [i \in all |-> streamerList[i].ChannelPoints], tie)
       ELSE IF priority = "POINTS_DESCENDING"
       THEN SortSlice(onlineIndexes, [i \in all |-> 0 - streamerList[i].ChannelPoints], tie)
       ELSE IF priority = "STREAK" THEN only(isStreak)
       ELSE IF priority = "DROPS" THEN only(isDrops)
       ELSE IF priority = "SUBSCRIBED"
       THEN SortSlice(only(hasMultiplier), [i \in all |-> 0 - streamerList[i].Multiplier], tie)
       ELSE <<>>

(* The inner loops without their break: every candidate not yet watched is  *)
(* added.                                                                   *)
RECURSIVE AddCandidatesNoBreak(_, _, _)
AddCandidatesNoBreak(cands, k, watching) ==
    IF k > Len(cands) THEN watching
    ELSE IF cands[k] \in Elems(watching)
    THEN AddCandidatesNoBreak(cands, k + 1, watching)
    ELSE AddCandidatesNoBreak(cands, k + 1, Append(watching, cands[k]))

(* The inner loop of each case of selectStreamersToWatch, from candidate k  *)
(* on; watching lists the indexes in the order they were added.             *)
RECURSIVE AddCandidates(_, _, _)
AddCandidates(cands, k, watching) ==
    IF k > Len(cands) THEN watching
    ELSE IF cands[k] \in Elems(watching) THEN AddCandidates(cands, k + 1, watching)
    ELSE LET added == Append(watching, cands[k])
         IN IF MaxSimultaneousStreams - Len(added) <= 0 THEN added
            ELSE AddCandidates(cands, k + 1, added)

(* The outer loop without the test of the remaining slots.                  *)
RECURSIVE WalkPrioritiesNoTest(_, _, _)
WalkPrioritiesNoTest(walked, p, watching) ==
    IF p > Len(walked) THEN watching
    ELSE WalkPrioritiesNoTest(walked, p + 1, AddCandidates(walked[p], 1, watching))

(* The outer loop of selectStreamersToWatch from priority p on; walked[p]   *)
(* holds the candidates of priority p.                                      *)
RECURSIVE WalkPriorities(_, _, _)
WalkPriorities(walked, p, watching) ==
    IF p > Len(walked) THEN watching
    ELSE IF MaxSimultaneousStreams - Len(watching) <= 0 THEN watching
    ELSE WalkPriorities(walked, p + 1, AddCandidates(walked[p], 1, watching))

(* What the sorts of selectStreamersToWatch make of the indexes that        *)
(* getOnlineStreamers returned at the top of processWatching (w.online):    *)
(* the candidates of every configured priority.                             *)
WalkedCandidates(w, tie) ==
    [p \in 1..Len(w.priorities) |->
        Candidates(w.priorities[p], w.online, w.streamers, tie)]

(* The orders in which ranging over the map watching can yield its keys.    *)
MapOrders(selection) ==
    {o \in [1..Len(selection) -> Elems(selection)] : Elems(o) = Elems(selection)}

-----------------------------------------------------------------------------
(* WebSocketPool                                                           *)

Last == clients[Len(clients)]

(* Submit with a last client that is left alone until it holds more than   *)
(* the limit.                                                               *)
NeedsNewClientLate ==
    IF Len(clients) = 0 THEN TRUE
    ELSE TopicCount(ws[Last]) > MaxTopicsPerConnection

NeedsNewClient ==
    IF Len(clients) = 0 THEN TRUE
    ELSE TopicCount(ws[Last]) >= MaxTopicsPerConnection

(* Traffic after Close has returned is recorded by kind.                    *)
Traffic(kinds) == IF poolClosed THEN afterClose \cup kinds ELSE afterClose

(* Submit when the dial of a new client succeeds, or no new client is       *)
(* needed.                                                                  *)
SubmitOk(topic) ==
    /\ ~poolClosed
    /\ recon = <<>> \/ inFlight < MaxSubmitsDuringReconnect
    /\ inFlight' = IF recon = <<>> THEN inFlight ELSE inFlight + 1
    /\ IF NeedsNewClient
       THEN LET fresh == ConnectFinish(ConnectDialed(ConnectReset(NewWebSocketClient)))
                w == [Listen(fresh, topic) EXCEPT !.assigned = @ \cup {TopicString(topic)}]
            IN /\ ws' = Append(ws, w)
               /\ clients' = Append(clients, Len(ws) + 1)
               /\ listenCount' = IF ListenSends(fresh, topic)
                                 THEN [listenCount EXCEPT ![TopicString(topic)] = @ + 1]
                                 ELSE listenCount
       ELSE /\ ws' = [ws EXCEPT ![Last] =
                        [Listen(@, topic) EXCEPT !.assigned = @ \cup {TopicString(topic)}]]
            /\ clients' = clients
            /\ listenCount' = IF ListenSends(ws[Last], topic)
                              THEN [listenCount EXCEPT ![TopicString(topic)] = @ + 1]
                              ELSE listenCount
    /\ subscribed' = subscribed \cup {TopicString(topic)}
    /\ UNCHANGED <<recon, reconnectFrames, dialFailures, poolClosed, afterClose>>

(* Submit when a new client is needed and its dial fails: the error is      *)
(* returned and nothing is recorded.  subscribeToTopics drops the error of  *)
(* a channel topic and goes on to the next topic.  (The error of one of the *)
(* two user topics makes Run return before anything else is started.)       *)
SubmitDialFails ==
    /\ ~poolClosed
    /\ 2 <= nextTopic /\ nextTopic < NumTopics
    /\ NeedsNewClient
    /\ dialFailures < MaxDialFailures
    /\ dialFailures' = dialFailures + 1
    /\ nextTopic' = nextTopic + 1
    /\ UNCHANGED <<clients, ws, recon, inFlight, reconnectFrames,
                   poolClosed, afterClose, listenCount, subscribed>>

(* The next topic of subscribeToTopics.                                     *)
SubmitNext ==
    /\ nextTopic < NumTopics
    /\ SubmitOk(subscribeToTopics[nextTopic + 1])
    /\ nextTopic' = nextTopic + 1

(* A topic that was submitted before is submitted again: the first topic    *)
(* ever submitted or the one submitted last.                                *)
SubmitAgain ==
    /\ AtEventPoint
    /\ \E k \in {1, nextTopic} : SubmitOk(subscribeToTopics[k])
    /\ UNCHANGED nextTopic

(* WebSocketPool.Close *)
Close ==
    /\ ~poolClosed
    /\ AtEventPoint
    /\ ws' = [i \in 1..Len(ws) |->
                IF \E k \in 1..Len(clients) : clients[k] = i
                THEN ClientClose(ws[i]) ELSE ws[i]]
    /\ clients' = <<>>
    /\ poolClosed' = TRUE
    /\ UNCHANGED <<recon, nextTopic, inFlight, reconnectFrames, dialFailures,
                   afterClose, listenCount, subscribed>>

-----------------------------------------------------------------------------
(* WebSocketClient.reconnect, one goroutine per call                       *)

RemoveAt(s, k) == SubSeq(s, 1, k - 1) \o SubSeq(s, k + 1, Len(s))

(* Connect, line 62: HandshakeTimeout: 30 * time.Second.                    *)
HandshakeTimeout == 30 * TicksPerSecond

(* due: the end of the reconnect's 60 s sleep while it sleeps, the latest   *)
(* return of the dial while it dials.                                       *)
NewReconnect(i) == [ws |-> i, pc |-> "start", topics |-> <<>>, due |-> 0]

(* handleMessage, case "RECONNECT": go ws.reconnect() *)
RecvReconnect(i) ==
    /\ AtEventPoint
    /\ ws[i].readers > 0 /\ ws[i].conn = "open"
    /\ reconnectFrames < MaxReconnectFrames
    /\ reconnectFrames' = reconnectFrames + 1
    /\ recon' = Append(recon, NewReconnect(i))
    /\ ws' = [ws EXCEPT ![i].trigger = @ \cup {"RECONNECT"},
                        ![i].reconnects = @ + 1]
    /\ UNCHANGED <<clients, nextTopic, inFlight, dialFailures, poolClosed,
                   afterClose, listenCount, subscribed>>

(* lines 354-365: give up if a reconnect runs or the client was closed,     *)
(* else mark the client and close the transport; the reader's read then     *)
(* fails and, forcedClose being false, it reports the error and returns.    *)
ReconnectStart(r) ==
    LET i == recon[r].ws IN
    /\ recon[r].pc = "start"
    /\ IF ws[i].isReconnecting \/ ws[i].forcedClose
       THEN /\ recon' = RemoveAt(recon, r)
            /\ ws' = ws
       ELSE /\ recon' = [recon EXCEPT ![r].pc = "sleep", ![r].due = now + Minute]
            /\ ws' = [ws EXCEPT ![i] =
                        [@ EXCEPT !.isReconnecting = TRUE, !.isClosed = TRUE,
                                  !.conn = IF @ = "nil" THEN "nil" ELSE "closed",
                                  !.listening = {},
                                  !.onError = IF ws[i].readers > 0
                                              THEN @ \cup {"read"} ELSE @,
                                  !.readers = 0]]
    /\ UNCHANGED <<clients, nextTopic, inFlight, reconnectFrames, dialFailures,
                   poolClosed, afterClose, listenCount, subscribed>>

(* lines 368-378: after the 60 s sleep, read forcedClose and copy topics.   *)
ReconnectWake(r) ==
    LET i == recon[r].ws IN
    /\ recon[r].pc = "sleep"
    /\ IF ws[i].forcedClose
       THEN recon' = RemoveAt(recon, r)
       ELSE recon' = [recon EXCEPT ![r].pc = "captured", ![r].topics = ws[i].topics]
    /\ UNCHANGED <<clients, ws, nextTopic, inFlight, reconnectFrames, dialFailures,
                   poolClosed, afterClose, listenCount, subscribed>>

(* lines 380-384 and Connect lines 56-59: a new stopChan, the captured      *)
(* topics become pending, topics is emptied, the flags are reset.           *)
ReconnectReset(r) ==
    LET i == recon[r].ws IN
    /\ recon[r].pc = "captured"
    /\ recon' = [recon EXCEPT ![r].pc = "dial", ![r].due = now + HandshakeTimeout]
    /\ ws' = [ws EXCEPT ![i] =
                ConnectReset([@ EXCEPT !.stopClosed = FALSE,
                                       !.pendingTopics = recon[r].topics,
                                       !.topics = <<>>])]
    /\ UNCHANGED <<clients, nextTopic, inFlight, reconnectFrames, dialFailures,
                   poolClosed, afterClose, listenCount, subscribed>>

(* Connect lines 65-74, the dial succeeds.                                  *)
ReconnectDialOk(r) ==
    LET i == recon[r].ws IN
    /\ recon[r].pc = "dial"
    /\ recon' = [recon EXCEPT ![r].pc = "relisten"]
    /\ ws' = [ws EXCEPT ![i] = ConnectDialed(@)]
    /\ afterClose' = Traffic({"open"})
    /\ UNCHANGED <<clients, nextTopic, inFlight, reconnectFrames, dialFailures,
                   poolClosed, listenCount, subscribed>>

(* Connect lines 65-68 and reconnect lines 386-389: the dial fails and a    *)
(* new reconnect goroutine is started.                                      *)
ReconnectDialFails(r) ==
    LET i == recon[r].ws IN
    /\ recon[r].pc = "dial"
    /\ dialFailures < MaxDialFailures
    /\ dialFailures' = dialFailures + 1
    /\ recon' = Append(RemoveAt(recon, r), NewReconnect(i))
    /\ ws' = [ws EXCEPT ![i].reconnects = @ + 1]
    /\ UNCHANGED <<clients, nextTopic, inFlight, reconnectFrames, poolClosed,
                   afterClose, listenCount, subscribed>>

(* Connect lines 76-84: the pending topics are re-Listened and the loops    *)
(* are started.                                                             *)
ReconnectRelisten(r) ==
    LET i == recon[r].ws
        sent == ListenAllSent(ws[i], ws[i].pendingTopics)
    IN
    /\ recon[r].pc = "relisten"
    /\ recon' = RemoveAt(recon, r)
    /\ ws' = [ws EXCEPT ![i] = [ConnectFinish(@) EXCEPT !.reopened = TRUE]]
    /\ listenCount' = CountFrames(listenCount, sent)
    /\ afterClose' = Traffic(IF sent = {} THEN {} ELSE {"LISTEN"})
    /\ UNCHANGED <<clients, nextTopic, inFlight, reconnectFrames, dialFailures,
                   poolClosed, subscribed>>

(* pingLoop, the time.After case: a PING unless the client is reconnecting. *)
Ping(i) ==
    /\ ws[i].pingers > 0
    /\ ~ws[i].stopClosed
    /\ ~ws[i].isReconnecting
    /\ afterClose' = Traffic(IF SendReaches(ws[i]) THEN {"PING"} ELSE {})
    /\ UNCHANGED <<clients, ws, recon, nextTopic, inFlight, reconnectFrames,
                   dialFailures, poolClosed, listenCount, subscribed>>

-----------------------------------------------------------------------------
(* SpecPool                                                                *)

InitPool ==
    /\ clients = <<>>
    /\ ws = <<>>
    /\ recon = <<>>
    /\ nextTopic = 0
    /\ inFlight = 0
    /\ reconnectFrames = 0
    /\ dialFailures = 0
    /\ poolClosed = FALSE
    /\ afterClose = {}
    /\ listenCount = [t \in TopicStrings |-> 0]
    /\ subscribed = {}
    /\ ctxDone = FALSE
    /\ minerStopped = FALSE
    /\ watcher = NewMinuteWatcher(<<>>, <<>>)
    /\ InitFeed
    /\ InitStreamers({FALSE})
    /\ InitBets

NextPool ==
    \/ SubmitNext /\ UNCHANGED <<minerVars, feedVars, dispVars, betVars, auxVars>>
    \/ SubmitAgain /\ UNCHANGED <<minerVars, feedVars, dispVars, betVars, auxVars>>
    \/ SubmitDialFails /\ UNCHANGED <<minerVars, feedVars, dispVars, betVars, auxVars>>
    \/ Close /\ UNCHANGED <<minerVars, feedVars, dispVars, betVars, auxVars>>
    \/ \E i \in 1..Len(ws) : RecvReconnect(i) /\ UNCHANGED <<minerVars, feedVars, dispVars, betVars, auxVars>>
    \/ \E i \in 1..Len(ws) : Ping(i) /\ UNCHANGED <<minerVars, feedVars, dispVars, betVars, auxVars>>
    \/ \E r \in 1..Len(recon) : ReconnectStart(r) /\ UNCHANGED <<minerVars, feedVars, dispVars, betVars, auxVars>>
    \/ \E r \in 1..Len(recon) : ReconnectWake(r) /\ UNCHANGED <<minerVars, feedVars, dispVars, betVars, auxVars>>
    \/ \E r \in 1..Len(recon) : ReconnectReset(r) /\ UNCHANGED <<minerVars, feedVars, dispVars, betVars, auxVars>>
    \/ \E r \in 1..Len(recon) : ReconnectDialOk(r) /\ UNCHANGED <<minerVars, feedVars, dispVars, betVars, auxVars>>
    \/ \E r \in 1..Len(recon) : ReconnectDialFails(r) /\ UNCHANGED <<minerVars, feedVars, dispVars, betVars, auxVars>>
    \/ \E r \in 1..Len(recon) : ReconnectRelisten(r) /\ UNCHANGED <<minerVars, feedVars, dispVars, betVars, auxVars>>

SpecPool == InitPool /\ [][NextPool]_vars

-----------------------------------------------------------------------------
(* The pool once Miner.subscribeToTopics has returned without incident      *)

TopicsOfClient(j) ==
    SubSeq(subscribeToTopics, (j - 1) * MaxTopicsPerConnection + 1,
           IF j * MaxTopicsPerConnection < NumTopics
           THEN j * MaxTopicsPerConnection ELSE NumTopics)

SubscribedClient(j) ==
    LET held == {TopicString(TopicsOfClient(j)[k]) : k \in 1..Len(TopicsOfClient(j))}
    IN [NewWebSocketClient EXCEPT
            !.topics = TopicsOfClient(j), !.isOpened = TRUE, !.conn = "open",
            !.listening = held, !.assigned = held,
            !.readers = 1, !.pingers = 1, !.nextCheck = Minute]

SubscribedPool ==
    /\ clients = [j \in 1..NumClients |-> j]
    /\ ws = [j \in 1..NumClients |-> SubscribedClient(j)]
    /\ recon = <<>>
    /\ nextTopic = NumTopics
    /\ inFlight = 0
    /\ reconnectFrames = 0
    /\ dialFailures = 0
    /\ poolClosed = FALSE
    /\ afterClose = {}
    /\ listenCount = [t \in TopicStrings |-> 1]
    /\ subscribed = TopicStrings
    /\ ctxDone = FALSE
    /\ minerStopped = FALSE

(* The broadcasters were found live by the online check of startMining.     *)
InitSubscribed ==
    /\ SubscribedPool
    /\ watcher = NewMinuteWatcher(<<>>, <<>>)
    /\ InitFeed
    /\ InitStreamers({TRUE})
    /\ InitBets

(* The same with broadcasters found live or not.                            *)
InitStarted ==
    /\ SubscribedPool
    /\ watcher = NewMinuteWatcher(<<>>, <<>>)
    /\ InitFeed
    /\ InitStreamers(BOOLEAN)
    /\ InitBets

-----------------------------------------------------------------------------
(* SpecSession: errors, RECONNECT frames and the supervisor                *)

(* readLoop, lines 241-254: the read fails; the error goes to onError       *)
(* unless the client was closed on purpose, and the reader returns.         *)
ReadError(i) ==
    /\ ws[i].readers > 0 /\ ws[i].conn = "open"
    /\ ws' = [ws EXCEPT ![i] =
                [@ EXCEPT !.conn = "closed", !.listening = {}, !.readers = 0,
                          !.onError = IF ws[i].forcedClose THEN @ ELSE @ \cup {"read"},
                          !.trigger = @ \cup {"read"}]]
    /\ UNCHANGED <<clients, recon, nextTopic, inFlight, reconnectFrames,
                   dialFailures, poolClosed, afterClose, listenCount, subscribed>>

ResponseErrors == {"ERR_BADAUTH", "ERR_BADTOPIC"}

(* handleMessage, case "RESPONSE" with an error: only ERR_BADAUTH goes to   *)
(* onError.                                                                 *)
RecvResponse(i, err) ==
    /\ ws[i].readers > 0 /\ ws[i].conn = "open"
    /\ ws' = [ws EXCEPT ![i] =
                IF err = "ERR_BADAUTH"
                THEN [@ EXCEPT !.onError = @ \cup {"ERR_BADAUTH"},
                               !.trigger = @ \cup {"ERR_BADAUTH"}]
                ELSE @]
    /\ UNCHANGED <<clients, recon, nextTopic, inFlight, reconnectFrames,
                   dialFailures, poolClosed, afterClose, listenCount, subscribed>>

(* WebSocketPool.handleError is what every client gets as onError: it       *)
(* writes a log line and touches no state, so the errors a client has       *)
(* passed to it are all there is to see of them.                            *)
handleError(w) == w.onError

(* The context of Miner.Run is cancelled (by the signal handler of main).   *)
Signal ==
    /\ ~ctxDone
    /\ ctxDone' = TRUE
    /\ UNCHANGED <<poolVars, minerStopped, watcher>>

(* Miner.Run, lines 95-98: once the context is done, Miner.stop closes the  *)
(* pool and the other components.                                           *)
Stop ==
    /\ ctxDone /\ ~minerStopped
    /\ Close
    /\ minerStopped' = TRUE
    /\ UNCHANGED <<ctxDone, watcher>>

NextSession ==
    \/ \E i \in 1..Len(ws) : ReadError(i) /\ UNCHANGED <<minerVars, feedVars, dispVars, betVars, auxVars>>
    \/ \E i \in 1..Len(ws), err \in ResponseErrors :
            RecvResponse(i, err) /\ UNCHANGED <<minerVars, feedVars, dispVars, betVars, auxVars>>
    \/ \E i \in 1..Len(ws) : RecvReconnect(i) /\ UNCHANGED <<minerVars, feedVars, dispVars, betVars, auxVars>>
    \/ \E i \in 1..Len(ws) : Ping(i) /\ UNCHANGED <<minerVars, feedVars, dispVars, betVars, auxVars>>
    \/ \E r \in 1..Len(recon) : ReconnectStart(r) /\ UNCHANGED <<minerVars, feedVars, dispVars, betVars, auxVars>>
    \/ \E r \in 1..Len(recon) : ReconnectWake(r) /\ UNCHANGED <<minerVars, feedVars, dispVars, betVars, auxVars>>
    \/ \E r \in 1..Len(recon) : ReconnectReset(r) /\ UNCHANGED <<minerVars, feedVars, dispVars, betVars, auxVars>>
    \/ \E r \in 1..Len(recon) : ReconnectDialOk(r) /\ UNCHANGED <<minerVars, feedVars, dispVars, betVars, auxVars>>
    \/ \E r \in 1..Len(recon) : ReconnectDialFails(r) /\ UNCHANGED <<minerVars, feedVars, dispVars, betVars, auxVars>>
    \/ \E r \in 1..Len(recon) : ReconnectRelisten(r) /\ UNCHANGED <<minerVars, feedVars, dispVars, betVars, auxVars>>
    \/ Signal /\ UNCHANGED <<feedVars, dispVars, betVars, auxVars>>
    \/ Stop /\ UNCHANGED <<feedVars, dispVars, betVars, auxVars>>

SpecSession == InitSubscribed /\ [][NextSession]_vars

(* Every goroutine of the program keeps running: readers handle the frames  *)
(* they read, reconnect goroutines take their steps, and Run proceeds to    *)
(* stop once its context is done.  Frames, failures and the signal come     *)
(* from outside and are under no obligation to happen.                      *)
FairSpecSession ==
    /\ SpecSession
    /\ WF_vars(Stop /\ UNCHANGED <<feedVars, dispVars, betVars, auxVars>>)
    /\ WF_vars(\E r \in 1..Len(recon) :
                 (\/ ReconnectStart(r) \/ ReconnectWake(r) \/ ReconnectReset(r)
                  \/ ReconnectDialOk(r) \/ ReconnectRelisten(r))
                 /\ UNCHANGED <<minerVars, feedVars, dispVars, betVars, auxVars>>)

-----------------------------------------------------------------------------
(* MESSAGE frames: the Twitch side                                         *)

PointsFrame(type, s, bal) ==
    [Type |-> type, Topic |-> NewTopic(TopicCommunityPointsUser, UserID),
     ChannelID |-> s, Data |-> [balance |-> bal]]

(* The goal as the server describes it in a community-points-channel frame. *)
ServerGoal(s, g) ==
    [GoalID |-> g,
     Status |-> IF contributed[s][g] < GoalAmount
                THEN CommunityGoalStarted ELSE CommunityGoalEnded,
     PointsContributed |-> contributed[s][g],
     GoalAmount |-> GoalAmount,
     IsInStock |-> TRUE]

GoalFrame(type, s, g) ==
    [Type |-> type, Topic |-> NewTopic(TopicCommunityPointsChannel, s),
     ChannelID |-> s, Data |-> [community_goal |-> ServerGoal(s, g)]]

GoalFrameTypes ==
    {"community-goal-created", "community-goal-updated", "community-goal-deleted"}

(* A frame goes to every session that has LISTENed to its topic.            *)
PushOn(w, f) ==
    [i \in DOMAIN w |->
        IF TopicString(f.Topic) \in ws[i].listening THEN Append(w[i], f) ELSE w[i]]

Push(f) == PushOn(wire, f)

(* The user earns points on channel s.                                      *)
ServerEarn(s) ==
    /\ serverSent < MaxFrames
    /\ serverSent' = serverSent + 1
    /\ balance' = [balance EXCEPT ![s] = @ + PointGain]
    /\ wire' = Push(PointsFrame("points-earned", s, balance[s] + PointGain))
    /\ UNCHANGED <<poolVars, minerVars, now, frameLog, streamers, handling, contributed>>

(* The user spends points on channel s outside the miner.                   *)
ServerSpend(s) ==
    /\ serverSent < MaxFrames
    /\ balance[s] >= PointCost
    /\ serverSent' = serverSent + 1
    /\ balance' = [balance EXCEPT ![s] = @ - PointCost]
    /\ wire' = Push(PointsFrame("points-spent", s, balance[s] - PointCost))
    /\ UNCHANGED <<poolVars, minerVars, now, frameLog, streamers, handling, contributed>>

(* The server announces a community goal of channel s.                      *)
ServerGoalEvent(s, g, type) ==
    /\ serverSent < MaxFrames
    /\ serverSent' = serverSent + 1
    /\ wire' = Push(GoalFrame(type, s, g))
    /\ UNCHANGED <<poolVars, minerVars, now, frameLog, dispVars>>

(* The clock runs for one second.                                           *)
Tick ==
    /\ now < TicksPerSecond
    /\ now' = now + 1
    /\ UNCHANGED <<poolVars, minerVars, frameLog, wire, serverSent, dispVars>>

-----------------------------------------------------------------------------
(* MESSAGE frames: the session and the dispatcher                          *)

MsgID(f) == f.Type \o "." \o TopicString(f.Topic) \o "." \o f.ChannelID

(* A variant of the duplicate test with the comparison of the clock turned  *)
(* round; the de-duplication property must tell it from the original.       *)
IsDuplicateLate(w, msgID, t) == w.lastMsgID = msgID /\ t - w.lastMsgTime >= TicksPerSecond

(* handleMessage, line 289 *)
IsDuplicate(w, msgID, t) == w.lastMsgID = msgID /\ t - w.lastMsgTime < TicksPerSecond

findStreamer(channelID) == channelID \in Broadcasters

(* handleCommunityPointsUser: points-earned and points-spent both store the *)
(* balance the frame carries.                                               *)
handleCommunityPointsUser(f, st) ==
    IF f.Type \in {"points-earned", "points-spent"}
    THEN SetChannelPoints(st, f.Data.balance)
    ELSE st

(* handleVideoPlayback *)
handleVideoPlayback(f, st, n, spadeOk, streamOk) ==
    IF f.Type = "stream-up" THEN [st EXCEPT !.StreamUpTime = TimeAt(n)]
    ELSE IF f.Type = "stream-down"
    THEN IF GetIsOnline(st) THEN SetOffline(st, n) ELSE st
    ELSE IF f.Type = "viewcount"
    THEN IF StreamUpElapsed(st, n)
         THEN CheckStreamerOnline(st, n, spadeOk, streamOk)
         ELSE st
    ELSE st

(* JoinRaid, line 475, with the test left out.                              *)
RaidRecordedNever(st, raidID) == FALSE

(* JoinRaid, line 475 *)
RaidRecorded(st, raidID) == st.Raid # "" /\ st.Raid = raidID

(* TwitchClient.JoinRaid: the raid is recorded and the request posted,      *)
(* whatever the answer.                                                     *)
JoinRaid(st, raidID) ==
    IF RaidRecorded(st, raidID) THEN st
    ELSE [st EXCEPT !.Raid = raidID, !.joinRaidPosts = Append(@, raidID)]

(* WebSocketPool.handleRaid *)
handleRaid(f, st) ==
    IF f.Type # "raid_update_v2" \/ ~st.Settings.FollowRaid THEN st
    ELSE IF f.Data.raid.id # "" /\ f.Data.raid.target_login # ""
    THEN JoinRaid(st, f.Data.raid.id)
    ELSE st

(* handleCommunityPointsChannel, the goal map after the switch.             *)
handleCommunityPointsChannel(f, st) ==
    IF f.Type = "community-goal-created" THEN AddCommunityGoal(st, f.Data.community_goal)
    ELSE IF f.Type = "community-goal-updated" THEN UpdateCommunityGoal(st, f.Data.community_goal)
    ELSE IF f.Type = "community-goal-deleted" THEN DeleteCommunityGoal(st, f.Data.community_goal.GoalID)
    ELSE st

GoalIDs(st) == {g \in Goals : st.CommunityGoals[g] # NoGoal}

(* contributeToGoals: the reader ranges over the goals of the broadcaster;  *)
(* todo holds the ones it has not visited yet.                              *)
ContributeLoop(s, todo) ==
    IF todo = {} THEN Idle ELSE [pc |-> "loop", s |-> s, todo |-> todo]

(* The test of enrolment with a closing time of zero let through.          *)
EnrollsAtZero(st, event) ==
    /\ st.Settings.MakePredictions
    /\ predictions[event.EventID] = NoEvent
    /\ event.Status = PredictionActive
    /\ GetIsOnline(st)
    /\ ClosingBetAfter(event, now) >= 0
    /\ ~(st.Settings.Bet.MinimumPoints > 0
          /\ GetChannelPoints(st) <= st.Settings.Bet.MinimumPoints)

(* handlePredictionChannel, lines 239-245, with the test of the map left    *)
(* out.                                                                     *)
TrackedNever(eventID) == FALSE

(* handlePredictionChannel, lines 239-241: the event id is in p.predictions. *)
Tracked(eventID) == predictions[eventID] # NoEvent

(* handlePredictionChannel, case "event-created": whether the event is     *)
(* stored and a deferred bet started.                                       *)
Enrolls(st, event) ==
    /\ st.Settings.MakePredictions
    /\ ~Tracked(event.EventID)
    /\ event.Status = PredictionActive
    /\ GetIsOnline(st)
    /\ ClosingBetAfter(event, now) > 0
    /\ ~(st.Settings.Bet.MinimumPoints > 0
          /\ GetChannelPoints(st) <= st.Settings.Bet.MinimumPoints)

NewBet(eventID) == [event |-> eventID, pc |-> "sleep", wokeClosed |-> FALSE]

handlePredictionChannel(f, st) ==
    LET data == f.Data.event
        event == NewEventPrediction(f.ChannelID, data.id, data.created_at,
                    GetPredictionWindow(st.Settings.Bet, data.prediction_window_seconds),
                    data.status)
    IN IF ~st.Settings.MakePredictions THEN UNCHANGED <<predictions, bets>>
       ELSE IF f.Type = "event-created" /\ Enrolls(st, event)
       THEN /\ predictions' = [predictions EXCEPT ![data.id] = event]
            /\ bets' = Append(bets, NewBet(data.id))
       ELSE IF f.Type = "event-updated" /\ predictions[data.id] # NoEvent
       THEN /\ predictions' = [predictions EXCEPT ![data.id].Status = data.status]
            /\ UNCHANGED bets
       ELSE UNCHANGED <<predictions, bets>>

(* WebSocketPool.handlePredictionUser; a result is parsed and entered in    *)
(* the history of the broadcaster (UpdateHistory, line 371).  The event     *)
(* stays in the map in every case.                                          *)
handlePredictionUser(f) ==
    LET eventID == f.Data.prediction.event_id IN
    IF predictions[eventID] = NoEvent THEN predictions
    ELSE IF f.Type = "prediction-made"
    THEN [predictions EXCEPT ![eventID].BetConfirmed = TRUE]
    ELSE IF f.Type = "prediction-result" /\ predictions[eventID].BetConfirmed
    THEN [predictions EXCEPT ![eventID].Result = f.Data.prediction.result,
                             ![eventID].historyUpdates = @ + 1]
    ELSE predictions

(* WebSocketPool.handleMessage for a frame that passed the duplicate test.  *)
handleMessage(i, f) ==
    IF ~findStreamer(f.ChannelID)
    THEN UNCHANGED <<streamers, handling, predictions, bets>>
    ELSE LET s == f.ChannelID IN
         IF f.Topic.Type = TopicCommunityPointsUser
         THEN /\ streamers' = [streamers EXCEPT ![s] = handleCommunityPointsUser(f, @)]
              /\ UNCHANGED <<handling, predictions, bets>>
         ELSE IF f.Topic.Type = TopicCommunityPointsChannel
         THEN /\ streamers' = [streamers EXCEPT ![s] = handleCommunityPointsChannel(f, @)]
              /\ handling' =
                    IF f.Type \in {"community-goal-updated", "community-goal-created"}
                    THEN [handling EXCEPT ![i] = ContributeLoop(s, GoalIDs(streamers'[s]))]
                    ELSE handling
              /\ UNCHANGED <<predictions, bets>>
         ELSE IF f.Topic.Type = TopicVideoPlaybackByID
         THEN /\ \E spadeOk, streamOk \in BOOLEAN :
                    streamers' = [streamers EXCEPT ![s] =
                                    handleVideoPlayback(f, @, now, spadeOk, streamOk)]
              /\ UNCHANGED <<handling, predictions, bets>>
         ELSE IF f.Topic.Type = TopicRaid
         THEN /\ streamers' = [streamers EXCEPT ![s] = handleRaid(f, @)]
              /\ UNCHANGED <<handling, predictions, bets>>
         ELSE IF f.Topic.Type = TopicPredictionsChannel
         THEN /\ handlePredictionChannel(f, streamers[s])
              /\ UNCHANGED <<streamers, handling>>
         ELSE IF f.Topic.Type = TopicPredictionsUser
         THEN /\ predictions' = handlePredictionUser(f)
              /\ UNCHANGED <<streamers, handling, bets>>
         ELSE UNCHANGED <<streamers, handling, predictions, bets>>

(* readLoop reads the next frame and WebSocketClient.handleMessage, case    *)
(* "MESSAGE", drops it as a duplicate or hands it to the dispatcher.        *)
RecvMessage(i) ==
    /\ ws[i].readers > 0 /\ ws[i].conn = "open"
    /\ handling[i] = Idle
    /\ wire[i] # <<>>
    /\ LET f == Head(wire[i])
           dup == IsDuplicate(ws[i], MsgID(f), now)
       IN /\ wire' = [wire EXCEPT ![i] = Tail(@)]
          /\ frameLog' = Append(frameLog,
                [ws |-> i, id |-> MsgID(f), Type |-> f.Type, ChannelID |-> f.ChannelID,
                 Data |-> f.Data, at |-> now, dispatched |-> ~dup])
          /\ ws' = IF dup THEN ws
                   ELSE [ws EXCEPT ![i].lastMsgID = MsgID(f), ![i].lastMsgTime = now]
          /\ IF dup THEN UNCHANGED <<streamers, handling, predictions, bets>>
             ELSE handleMessage(i, f)
    /\ UNCHANGED <<clients, recon, nextTopic, inFlight, reconnectFrames, dialFailures,
                   poolClosed, afterClose, listenCount, subscribed>>
    /\ UNCHANGED <<minerVars, now, serverSent, balance, contributed, serverEvent,
                   submissions, betCalc, auxVars>>

(* contributeToGoals, one turn of the loop: goal g is skipped, or           *)
(* ContributeToCommunityGoal is called for it and posts its request.        *)
ContributeNext(i, g) ==
    /\ handling[i].pc = "loop"
    /\ g \in handling[i].todo
    /\ LET s == handling[i].s
           goal == streamers[s].CommunityGoals[g]
           rest == handling[i].todo \ {g}
           eligible ==
               /\ goal # NoGoal
               /\ goal.Status = CommunityGoalStarted /\ goal.IsInStock
               /\ AmountLeft(goal) > 0 /\ GetChannelPoints(streamers[s]) > 0
           amount == Min(AmountLeft(goal), GetChannelPoints(streamers[s]))
       IN handling' = [handling EXCEPT ![i] =
                        IF eligible /\ amount > 0
                        THEN [pc |-> "post", s |-> s, todo |-> rest,
                              goal |-> g, amount |-> amount]
                        ELSE ContributeLoop(s, rest)]
    /\ UNCHANGED <<poolVars, minerVars, feedVars, streamers, balance, contributed>>

(* The server takes the contribution: it books the points and tells the     *)
(* user's sessions of the new balance.                                      *)
ContributeAccepted(i) ==
    /\ handling[i].pc = "post"
    /\ LET s == handling[i].s
           g == handling[i].goal
           amount == handling[i].amount
       IN /\ amount <= balance[s]
          /\ amount <= GoalAmount - contributed[s][g]
          /\ balance' = [balance EXCEPT ![s] = @ - amount]
          /\ contributed' = [contributed EXCEPT ![s][g] = @ + amount]
          /\ wire' = Push(PointsFrame("points-spent", s, balance[s] - amount))
    /\ handling' = [handling EXCEPT ![i].pc = "accepted"]
    /\ UNCHANGED <<poolVars, minerVars, now, frameLog, serverSent, streamers>>

(* The request fails or the server answers with an error.                   *)
ContributeRejected(i) ==
    /\ handling[i].pc = "post"
    /\ handling' = [handling EXCEPT ![i] = ContributeLoop(@.s, @.todo)]
    /\ UNCHANGED <<poolVars, minerVars, feedVars, streamers, balance, contributed>>

(* ContributeToCommunityGoal, line 676, after a good answer.                *)
ContributeReturn(i) ==
    /\ handling[i].pc = "accepted"
    /\ LET s == handling[i].s IN
       streamers' = [streamers EXCEPT ![s] =
            SetChannelPoints(@, GetChannelPoints(@) - handling[i].amount)]
    /\ handling' = [handling EXCEPT ![i] = ContributeLoop(@.s, @.todo)]
    /\ UNCHANGED <<poolVars, minerVars, feedVars, balance, contributed>>

NextDispatch ==
    \/ \E s \in Broadcasters : ServerEarn(s) /\ UNCHANGED <<betVars, auxVars>>
    \/ \E s \in Broadcasters : ServerSpend(s) /\ UNCHANGED <<betVars, auxVars>>
    \/ \E s \in Broadcasters, g \in Goals, type \in GoalFrameTypes :
            ServerGoalEvent(s, g, type) /\ UNCHANGED <<betVars, auxVars>>
    \/ Tick /\ UNCHANGED <<betVars, auxVars>>
    \/ \E i \in 1..Len(ws) : RecvMessage(i)
    \/ \E i \in 1..Len(ws), g \in Goals : ContributeNext(i, g) /\ UNCHANGED <<betVars, auxVars>>
    \/ \E i \in 1..Len(ws) : ContributeAccepted(i) /\ UNCHANGED <<betVars, auxVars>>
    \/ \E i \in 1..Len(ws) : ContributeRejected(i) /\ UNCHANGED <<betVars, auxVars>>
    \/ \E i \in 1..Len(ws) : ContributeReturn(i) /\ UNCHANGED <<betVars, auxVars>>

SpecDispatch == InitSubscribed /\ [][NextDispatch]_vars

-----------------------------------------------------------------------------
(* SpecBets: prediction events and the deferred bets                       *)

PredictionFrame(type, s, e, status, window) ==
    [Type |-> type, Topic |-> NewTopic(TopicPredictionsChannel, s), ChannelID |-> s,
     Data |-> [event |-> [id |-> e, status |-> status, created_at |-> now,
                          prediction_window_seconds |-> window]]]

PredictionUserFrame(type, s, e, result) ==
    [Type |-> type, Topic |-> NewTopic(TopicPredictionsUser, UserID), ChannelID |-> s,
     Data |-> [prediction |-> [event_id |-> e, result |-> result]]]

(* The results the server reports to a user who has a bet on an event that  *)
(* reached the status.                                                      *)
ResultsOf(status) ==
    IF status = PredictionResolved THEN {"WIN", "LOSE"}
    ELSE IF status = PredictionCanceled THEN {"REFUND"}
    ELSE {}

(* Windows shorter and longer than the delay of the bet settings.           *)
PredictionWindows == {BetSettings.Delay - 1, 5 * BetSettings.Delay}

(* A broadcaster opens a prediction.                                        *)
ServerEventCreated(s, e, window) ==
    /\ serverSent < MaxFrames
    /\ serverEvent[e] = "none"
    /\ serverSent' = serverSent + 1
    /\ serverEvent' = [serverEvent EXCEPT ![e] = PredictionActive]
    /\ wire' = Push(PredictionFrame("event-created", s, e, PredictionActive, window))
    /\ UNCHANGED <<poolVars, minerVars, now, frameLog, dispVars,
                   predictions, bets, submissions, betCalc, auxVars>>

(* The server reports the event again: new totals, or a new status; with    *)
(* the end of the event a user whose bet was taken is told the result.      *)
StatusAfter(status) ==
    IF status = PredictionActive THEN {PredictionActive, PredictionLocked, PredictionCanceled}
    ELSE IF status = PredictionLocked THEN {PredictionResolved, PredictionCanceled}
    ELSE {}

ServerEventUpdated(s, e, status) ==
    /\ serverSent < MaxFrames
    /\ status \in StatusAfter(serverEvent[e])
    /\ serverSent' = serverSent + 1
    /\ serverEvent' = [serverEvent EXCEPT ![e] = status]
    /\ LET updated == Push(PredictionFrame("event-updated", s, e, status, 0))
           hasBet == IF predictions[e] = NoEvent THEN FALSE ELSE predictions[e].BetPlaced
       IN IF hasBet /\ ResultsOf(status) # {}
          THEN \E result \in ResultsOf(status) :
                    wire' = PushOn(updated, PredictionUserFrame("prediction-result", s, e, result))
          ELSE wire' = updated
    /\ UNCHANGED <<poolVars, minerVars, now, frameLog, dispVars,
                   predictions, bets, submissions, betCalc, auxVars>>

(* The deferred bet, lines 296-301: the sleep is over; the goroutine looks  *)
(* the event up and goes on to MakePrediction if it is still ACTIVE.        *)
BetWake(b) ==
    /\ ~minerStopped
    /\ bets[b].pc = "sleep"
    /\ LET evt == predictions[bets[b].event] IN
       bets' = IF evt # NoEvent /\ evt.Status = PredictionActive
               THEN [bets EXCEPT ![b].pc = "call", ![b].wokeClosed = poolClosed]
               ELSE RemoveAt(bets, b)
    /\ UNCHANGED <<poolVars, minerVars, feedVars, dispVars,
                   serverEvent, predictions, submissions, betCalc, auxVars>>

(* MakePrediction up to its request: the amount is calculated from the      *)
(* points of the broadcaster, and a bet of 10 or more is posted.            *)
BetSubmit(b) ==
    /\ ~minerStopped
    /\ bets[b].pc = "call"
    /\ LET evt == predictions[bets[b].event]
           amount == CalculateAmount(streamers[evt.Streamer].Settings.Bet,
                                     GetChannelPoints(streamers[evt.Streamer]))
       IN IF amount < 10
          THEN /\ bets' = RemoveAt(bets, b)
               /\ UNCHANGED submissions
          ELSE /\ bets' = [bets EXCEPT ![b] = [event |-> evt.EventID, pc |-> "posted",
                                                wokeClosed |-> bets[b].wokeClosed,
                                                amount |-> amount]]
               /\ submissions' = Append(submissions,
                        [event |-> evt.EventID, status |-> evt.Status, amount |-> amount,
                         afterClose |-> bets[b].wokeClosed])
    /\ UNCHANGED <<poolVars, minerVars, feedVars, dispVars, serverEvent, predictions,
                   betCalc, auxVars>>

(* The server takes the bet, MakePrediction marks the event, and the server *)
(* reports the points spent and the prediction made.                        *)
BetAccepted(b) ==
    /\ bets[b].pc = "posted"
    /\ LET e == bets[b].event
           s == predictions[e].Streamer
       IN /\ serverEvent[e] = PredictionActive
          /\ bets[b].amount <= balance[s]
          /\ balance' = [balance EXCEPT ![s] = @ - bets[b].amount]
          /\ wire' = PushOn(Push(PointsFrame("points-spent", s, balance[s] - bets[b].amount)),
                            PredictionUserFrame("prediction-made", s, e, ""))
          /\ predictions' = [predictions EXCEPT ![e].BetPlaced = TRUE]
    /\ bets' = RemoveAt(bets, b)
    /\ UNCHANGED <<poolVars, minerVars, now, frameLog, serverSent, streamers, handling,
                   contributed, serverEvent, submissions, betCalc, auxVars>>

(* The request fails or the server answers with an error.                   *)
BetRejected(b) ==
    /\ bets[b].pc = "posted"
    /\ bets' = RemoveAt(bets, b)
    /\ UNCHANGED <<poolVars, minerVars, feedVars, dispVars,
                   serverEvent, predictions, submissions, betCalc, auxVars>>

(* Miner.stop, lines 417-418: the pool is closed; the rest of stop follows. *)
StopClosesPool ==
    /\ ctxDone /\ ~minerStopped
    /\ Close
    /\ UNCHANGED minerVars

(* Miner.stop, lines 419-439, and the return of Run: the process ends.      *)
StopReturns ==
    /\ ctxDone /\ poolClosed /\ ~minerStopped
    /\ minerStopped' = TRUE
    /\ UNCHANGED <<poolVars, ctxDone, watcher>>

NextBets ==
    \/ Signal /\ UNCHANGED <<feedVars, dispVars, betVars, auxVars>>
    \/ StopClosesPool /\ UNCHANGED <<feedVars, dispVars, betVars, auxVars>>
    \/ StopReturns /\ UNCHANGED <<feedVars, dispVars, betVars, auxVars>>
    \/ \E s \in Broadcasters, e \in Events, window \in PredictionWindows :
            ServerEventCreated(s, e, window)
    \/ \E s \in Broadcasters, e \in Events,
          status \in {PredictionActive, PredictionLocked, PredictionResolved, PredictionCanceled} :
            ServerEventUpdated(s, e, status)
    \/ Tick /\ UNCHANGED <<betVars, auxVars>>
    \/ \E i \in 1..Len(ws) : RecvMessage(i)
    \/ \E b \in 1..Len(bets) : BetWake(b)
    \/ \E b \in 1..Len(bets) : BetSubmit(b)
    \/ \E b \in 1..Len(bets) : BetAccepted(b)
    \/ \E b \in 1..Len(bets) : BetRejected(b)

SpecBets == InitStarted /\ [][NextBets]_vars

(* SpecEnrol: the enrolment of event-created frames for broadcasters with   *)
(* every setting and balance.                                               *)
EnrolStreamers ==
    {[SetChannelPoints(LoadedStreamer(online), points) EXCEPT
         !.Settings.MakePredictions = enabled, !.Settings.Bet.MinimumPoints = minimum] :
       online \in BOOLEAN, points \in {0, PointCost, InitialPoints},
       enabled \in BOOLEAN, minimum \in {0, PointCost}}

InitEnrol ==
    /\ SubscribedPool
    /\ watcher = NewMinuteWatcher(<<>>, <<>>)
    /\ InitFeed
    /\ streamers \in [Broadcasters -> EnrolStreamers]
    /\ handling = [i \in 1..NumClients |-> Idle]
    /\ balance = [s \in Broadcasters |-> GetChannelPoints(streamers[s])]
    /\ contributed = [s \in Broadcasters |-> [g \in Goals |-> 0]]
    /\ InitBets

(* The server sends event-created again for an event it has already         *)
(* announced, with the status the event has by now.                         *)
ServerEventCreatedAgain(s, e, window) ==
    /\ serverSent < MaxFrames
    /\ serverEvent[e] # "none"
    /\ serverSent' = serverSent + 1
    /\ wire' = Push(PredictionFrame("event-created", s, e, serverEvent[e], window))
    /\ UNCHANGED <<poolVars, minerVars, now, frameLog, dispVars, serverEvent,
                   predictions, bets, submissions, betCalc, auxVars>>

NextEnrol ==
    \/ \E s \in Broadcasters, e \in Events, window \in PredictionWindows :
            ServerEventCreated(s, e, window)
    \/ \E s \in Broadcasters, e \in Events, window \in PredictionWindows :
            ServerEventCreatedAgain(s, e, window)
    \/ \E s \in Broadcasters, e \in Events,
          status \in {PredictionActive, PredictionLocked, PredictionResolved, PredictionCanceled} :
            ServerEventUpdated(s, e, status)
    \/ Tick /\ UNCHANGED <<betVars, auxVars>>
    \/ \E i \in 1..Len(ws) : RecvMessage(i)
    \/ \E b \in 1..Len(bets) : BetWake(b)
    \/ \E b \in 1..Len(bets) : BetSubmit(b)

SpecEnrol == InitEnrol /\ [][NextEnrol]_vars

-----------------------------------------------------------------------------
(* SpecResult: the result of an event delivered again                      *)

(* The server delivers the prediction-result of an ended event once more.   *)
ServerResultAgain(s, e) ==
    /\ serverSent < MaxFrames
    /\ predictions[e] # NoEvent
    /\ predictions[e].Streamer = s /\ predictions[e].BetPlaced
    /\ ResultsOf(serverEvent[e]) # {}
    /\ serverSent' = serverSent + 1
    /\ \E result \in ResultsOf(serverEvent[e]) :
            wire' = Push(PredictionUserFrame("prediction-result", s, e, result))
    /\ UNCHANGED <<poolVars, minerVars, now, frameLog, dispVars, serverEvent,
                   predictions, bets, submissions, betCalc, auxVars>>

NextResult ==
    \/ \E s \in Broadcasters, e \in Events, window \in PredictionWindows :
            ServerEventCreated(s, e, window)
    \/ \E s \in Broadcasters, e \in Events,
          status \in {PredictionActive, PredictionLocked, PredictionResolved, PredictionCanceled} :
            ServerEventUpdated(s, e, status)
    \/ \E s \in Broadcasters, e \in Events : ServerResultAgain(s, e)
    \/ Tick /\ UNCHANGED <<betVars, auxVars>>
    \/ \E i \in 1..Len(ws) : RecvMessage(i)
    \/ \E b \in 1..Len(bets) : BetWake(b)
    \/ \E b \in 1..Len(bets) : BetSubmit(b)
    \/ \E b \in 1..Len(bets) : BetAccepted(b)
    \/ \E b \in 1..Len(bets) : BetRejected(b)

SpecResult == InitSubscribed /\ [][NextResult]_vars

-----------------------------------------------------------------------------
(* SpecOnline: the online state of the broadcasters                        *)

VideoFrame(type, s) ==
    [Type |-> type, Topic |-> NewTopic(TopicVideoPlaybackByID, s), ChannelID |-> s,
     Data |-> [type |-> type]]

VideoFrameTypes == {"stream-up", "stream-down", "viewcount"}

(* The server reports on the stream of channel s.                           *)
ServerVideo(s, type) ==
    /\ serverSent < MaxFrames
    /\ serverSent' = serverSent + 1
    /\ wire' = Push(VideoFrame(type, s))
    /\ UNCHANGED <<poolVars, minerVars, now, frameLog, dispVars, betVars, auxVars>>

(* A minute passes.                                                         *)
ElapseMinute ==
    /\ now < MaxMinutes * Minute
    /\ now' = now + Minute
    /\ UNCHANGED <<poolVars, minerVars, frameLog, wire, serverSent, dispVars, betVars, auxVars>>

(* streamCheckLoop, one firing of the ticker: every broadcaster is checked. *)
StreamCheck ==
    /\ ~ctxDone
    /\ \E spadeOk, streamOk \in [Broadcasters -> BOOLEAN] :
            streamers' = [s \in Broadcasters |->
                            CheckStreamerOnline(streamers[s], now, spadeOk[s], streamOk[s])]
    /\ UNCHANGED <<poolVars, minerVars, feedVars, handling, balance, contributed, betVars, auxVars>>

(* processWatching, lines 937-942: a beacon for an online broadcaster is    *)
(* sent and the minutes watched are brought up to date; the beacons of a    *)
(* broadcaster are a cycle (a minute) apart.                                *)
MinuteWatchedSent(s) ==
    /\ ~ctxDone
    /\ GetIsOnline(streamers[s])
    /\ ~SinceLess(streamers[s].Stream.minuteWatchedUpdated, Minute, now)
    /\ streamers' = [streamers EXCEPT ![s].Stream = UpdateMinuteWatched(@, now)]
    /\ UNCHANGED <<poolVars, minerVars, feedVars, handling, balance, contributed, betVars, auxVars>>

NextOnline ==
    \/ \E s \in Broadcasters, type \in VideoFrameTypes : ServerVideo(s, type)
    \/ Tick /\ UNCHANGED <<betVars, auxVars>>
    \/ ElapseMinute
    \/ \E i \in 1..Len(ws) : RecvMessage(i)
    \/ StreamCheck

SpecOnline == InitStarted /\ [][NextOnline]_vars

(* The stream record of a broadcaster that is watched while it goes on and  *)
(* off the air.                                                             *)
NextStream ==
    \/ \E s \in Broadcasters : MinuteWatchedSent(s)
    \/ \E s \in Broadcasters, type \in VideoFrameTypes : ServerVideo(s, type)
    \/ ElapseMinute
    \/ \E i \in 1..Len(ws) : RecvMessage(i)
    \/ StreamCheck

SpecStream == InitStarted /\ [][NextStream]_vars

-----------------------------------------------------------------------------
(* SpecWatch: the MinuteWatcher's loop                                     *)

(* The streamers as the watcher sees them: online (for more than 30 s) or   *)
(* not, the points, whether the streak and the drops conditions hold, and   *)
(* the total of the active multipliers.                                     *)
WatchedStreamers ==
    {[IsOnline |-> TRUE, ChannelPoints |-> 10, StreakCondition |-> FALSE,
      DropsCondition |-> TRUE, Multiplier |-> 0],
     [IsOnline |-> TRUE, ChannelPoints |-> 20, StreakCondition |-> TRUE,
      DropsCondition |-> FALSE, Multiplier |-> 2],
     [IsOnline |-> FALSE, ChannelPoints |-> 10, StreakCondition |-> FALSE,
      DropsCondition |-> FALSE, Multiplier |-> 0]}

PriorityLists ==
    {<<>>} \cup {<<p>> : p \in Priorities}
           \cup {<<pq[1], pq[2]>> : pq \in {x \in Priorities \X Priorities : x[1] # x[2]}}

Ties == {t \in [1..NumWatched -> 1..NumWatched] : \A i, j \in 1..NumWatched : t[i] = t[j] => i = j}

StartedWatchers ==
    {[NewMinuteWatcher(l, ps) EXCEPT !.pc = "top"] :
        l \in [1..NumWatched -> WatchedStreamers], ps \in PriorityLists}

(* MinuteWatcher.Start *)
InitWatch ==
    /\ SubscribedPool
    /\ watcher \in StartedWatchers
    /\ InitFeed
    /\ InitStreamers({TRUE})
    /\ InitBets

(* processWatching from the selection to the call of sendMinuteWatched for  *)
(* the first streamer; order is the order in which the range over the map   *)
(* yields the selection.                                                    *)
BeginCycle(w, tie, order) ==
    LET walked == WalkedCandidates(w, tie)
        selection == WalkPriorities(walked, 1, <<>>)
    IN IF selection = <<>>
       THEN [w EXCEPT !.pc = "cyclesleep", !.walked = walked, !.selection = <<>>,
                      !.watching = <<>>, !.next = 0, !.beacons = <<>>]
       ELSE [w EXCEPT !.pc = "sending", !.walked = walked, !.selection = selection,
                      !.watching = order, !.next = 1,
                      !.beacons = <<[idx |-> order[1], cancelled |-> ctxDone]>>]

(* processWatching, lines 916-920: CheckStreamerOnline of the stale online  *)
(* streamers; for those in failed UpdateStream fails and SetOffline is       *)
(* called.                                                                  *)
CheckStale(w, failed) ==
    [w EXCEPT !.streamers = [i \in 1..Len(w.streamers) |->
                               IF i \in failed THEN [w.streamers[i] EXCEPT !.IsOnline = FALSE]
                               ELSE w.streamers[i]]]

(* loop, lines 891-898: the context is checked and processWatching called,  *)
(* which first takes the list of getOnlineStreamers.  If the stream data of *)
(* an online streamer are stale its online check (HTTP requests) comes      *)
(* first; otherwise the cycle goes straight to the selection.               *)
WatcherLoop ==
    /\ watcher.pc = "top" /\ watcher.cycle < MaxCycles
    /\ IF ctxDone
       THEN watcher' = [watcher EXCEPT !.pc = "exited"]
       ELSE LET w == [watcher EXCEPT !.online = getOnlineStreamers(watcher.streamers)]
            IN \/ /\ w.online # <<>>
                  /\ watcher' = [w EXCEPT !.pc = "checking"]
               \/ \E tie \in Ties :
                    \E o \in MapOrders(WalkPriorities(WalkedCandidates(w, tie), 1, <<>>)) :
                       watcher' = BeginCycle(w, tie, o)
    /\ UNCHANGED <<poolVars, ctxDone, minerStopped, feedVars, dispVars, betVars, auxVars>>

(* processWatching, lines 915-937, once the online checks have returned     *)
(* and every checked streamer was found online.                             *)
WatcherSelect ==
    /\ watcher.pc = "checking"
    /\ \E tie \in Ties :
         \E o \in MapOrders(WalkPriorities(WalkedCandidates(watcher, tie), 1, <<>>)) :
            watcher' = BeginCycle(watcher, tie, o)
    /\ UNCHANGED <<poolVars, ctxDone, minerStopped, feedVars, dispVars, betVars, auxVars>>

(* sendMinuteWatched returns.                                               *)
WatcherBeaconSent ==
    /\ watcher.pc = "sending"
    /\ watcher' = [watcher EXCEPT !.pc = "between"]
    /\ UNCHANGED <<poolVars, ctxDone, minerStopped, feedVars, dispVars, betVars, auxVars>>

(* processWatching, lines 944-948: the select after a beacon returns on a   *)
(* cancelled context (and the select of loop, line 900, returns as well);   *)
(* otherwise the delay passes and the next streamer's beacon is sent, or    *)
(* the cycle is over.                                                       *)
WatcherSleepBetween ==
    /\ watcher.pc = "between"
    /\ watcher' =
          IF ctxDone THEN [watcher EXCEPT !.pc = "exited"]
          ELSE IF watcher.next < Len(watcher.watching)
          THEN [watcher EXCEPT !.pc = "sending", !.next = @ + 1,
                    !.beacons = Append(@, [idx |-> watcher.watching[watcher.next + 1],
                                           cancelled |-> ctxDone])]
          ELSE [watcher EXCEPT !.pc = "cyclesleep"]
    /\ UNCHANGED <<poolVars, ctxDone, minerStopped, feedVars, dispVars, betVars, auxVars>>

(* loop, lines 899-904: the sleep between two cycles.                       *)
WatcherSleepCycle ==
    /\ watcher.pc = "cyclesleep"
    /\ watcher' = IF ctxDone THEN [watcher EXCEPT !.pc = "exited"]
                  ELSE [watcher EXCEPT !.pc = "top", !.cycle = @ + 1]
    /\ UNCHANGED <<poolVars, ctxDone, minerStopped, feedVars, dispVars, betVars, auxVars>>

(* processWatching, lines 915-937, once the online checks have returned     *)
(* and some of the checked streamers were set offline.                      *)
WatcherSelectAfterOffline ==
    /\ watcher.pc = "checking"
    /\ \E failed \in {f \in SUBSET Elems(watcher.online) :
                         f # {} /\ Cardinality(f) <= MaxFailedChecks} :
         LET w == CheckStale(watcher, failed)
         IN \E tie \in Ties :
              \E o \in MapOrders(WalkPriorities(WalkedCandidates(w, tie), 1, <<>>)) :
                 watcher' = BeginCycle(w, tie, o)
    /\ UNCHANGED <<poolVars, ctxDone, minerStopped, feedVars, dispVars, betVars, auxVars>>

NextWatch ==
    \/ Signal /\ UNCHANGED <<feedVars, dispVars, betVars, auxVars>>
    \/ WatcherLoop
    \/ WatcherSelect
    \/ WatcherBeaconSent
    \/ WatcherSleepBetween
    \/ WatcherSleepCycle

SpecWatch == InitWatch /\ [][NextWatch]_vars

(* The watcher with online checks that fail, for at most one priority.      *)
InitRecheck ==
    /\ InitWatch
    /\ Len(watcher.priorities) <= 1

NextRecheck ==
    \/ NextWatch
    \/ WatcherSelectAfterOffline

SpecRecheck == InitRecheck /\ [][NextRecheck]_vars

-----------------------------------------------------------------------------
(* SpecPong: the liveness check of the pingLoop                            *)

PongTimeoutMinutes == 5

(* The test of the PONG with a limit one minute longer.                     *)
PongOverdueLate(w, n) == n - w.lastPong > (PongTimeoutMinutes + 1) * Minute

(* pingLoop, lines 341 and 345: elapsed > 5*time.Minute at clock reading n. *)
PongOverdue(w, n) == n - w.lastPong > PongTimeoutMinutes * Minute

(* A pingLoop of the client runs: Connect started one and the stopChan it   *)
(* selects on is not closed.                                                *)
PingLoopRuns(w) == w.pingers > 0 /\ ~w.stopClosed

(* handleMessage, case "PONG" *)
RecvPong(i) ==
    /\ ws[i].readers > 0 /\ ws[i].conn = "open"
    /\ ws[i].lastPong # now
    /\ ws' = [ws EXCEPT ![i].lastPong = now]
    /\ UNCHANGED <<clients, recon, nextTopic, inFlight, reconnectFrames, dialFailures,
                   poolClosed, afterClose, listenCount, subscribed>>

(* pingLoop, the checkTicker case: a tick of the ticker is due; a reconnect *)
(* goroutine is started when the client is not reconnecting and the last    *)
(* PONG is more than 5 minutes old.                                         *)
PingCheck(i) ==
    /\ PingLoopRuns(ws[i])
    /\ now >= ws[i].nextCheck
    /\ IF ~ws[i].isReconnecting /\ PongOverdue(ws[i], now)
       THEN /\ recon' = Append(recon, NewReconnect(i))
            /\ ws' = [ws EXCEPT ![i].nextCheck = @ + Minute, ![i].reconnects = @ + 1]
       ELSE /\ recon' = recon
            /\ ws' = [ws EXCEPT ![i].nextCheck = @ + Minute]
    /\ UNCHANGED <<clients, nextTopic, inFlight, reconnectFrames, dialFailures,
                   poolClosed, afterClose, listenCount, subscribed>>

(* A minute passes; the pingLoops take the ticks of their tickers as they   *)
(* come due.                                                                *)
MinutePasses ==
    /\ now < (PongTimeoutMinutes + 1) * Minute
    /\ \A i \in 1..Len(ws) : PingLoopRuns(ws[i]) => now < ws[i].nextCheck
    /\ now' = now + Minute
    /\ UNCHANGED <<poolVars, minerVars, frameLog, wire, serverSent, dispVars, betVars, auxVars>>

NextPong ==
    \/ MinutePasses
    \/ \E i \in 1..Len(ws) : RecvPong(i) /\ UNCHANGED <<minerVars, feedVars, dispVars, betVars, auxVars>>
    \/ \E i \in 1..Len(ws) : PingCheck(i) /\ UNCHANGED <<minerVars, feedVars, dispVars, betVars, auxVars>>
    \/ \E i \in 1..Len(ws) : Ping(i) /\ UNCHANGED <<minerVars, feedVars, dispVars, betVars, auxVars>>
    \/ \E i \in 1..Len(ws) : ReadError(i) /\ UNCHANGED <<minerVars, feedVars, dispVars, betVars, auxVars>>
    \/ \E r \in 1..Len(recon) : ReconnectStart(r) /\ UNCHANGED <<minerVars, feedVars, dispVars, betVars, auxVars>>
    \/ \E r \in 1..Len(recon) : ReconnectWake(r) /\ UNCHANGED <<minerVars, feedVars, dispVars, betVars, auxVars>>
    \/ \E r \in 1..Len(recon) : ReconnectReset(r) /\ UNCHANGED <<minerVars, feedVars, dispVars, betVars, auxVars>>
    \/ \E r \in 1..Len(recon) : ReconnectDialOk(r) /\ UNCHANGED <<minerVars, feedVars, dispVars, betVars, auxVars>>
    \/ \E r \in 1..Len(recon) : ReconnectDialFails(r) /\ UNCHANGED <<minerVars, feedVars, dispVars, betVars, auxVars>>
    \/ \E r \in 1..Len(recon) : ReconnectRelisten(r) /\ UNCHANGED <<minerVars, feedVars, dispVars, betVars, auxVars>>
    \/ Signal /\ UNCHANGED <<feedVars, dispVars, betVars, auxVars>>
    \/ Stop /\ UNCHANGED <<feedVars, dispVars, betVars, auxVars>>

SpecPong == InitSubscribed /\ [][NextPong]_vars

-----------------------------------------------------------------------------
(* SpecRaid: raid frames                                                   *)

RaidIDs == {"r1", "r2", ""}

RaidFrame(type, s, raidID, target) ==
    [Type |-> type, Topic |-> NewTopic(TopicRaid, s), ChannelID |-> s,
     Data |-> [raid |-> [id |-> raidID, target_login |-> target]]]

RaidStreamers ==
    {[LoadedStreamer(TRUE) EXCEPT !.Settings.FollowRaid = follow] : follow \in BOOLEAN}

InitRaid ==
    /\ SubscribedPool
    /\ watcher = NewMinuteWatcher(<<>>, <<>>)
    /\ InitFeed
    /\ streamers \in [Broadcasters -> RaidStreamers]
    /\ handling = [i \in 1..NumClients |-> Idle]
    /\ balance = [s \in Broadcasters |-> InitialPoints]
    /\ contributed = [s \in Broadcasters |-> [g \in Goals |-> 0]]
    /\ InitBets

(* Channel s announces a raid, or reports on it again.                      *)
ServerRaid(s, type, raidID, target) ==
    /\ serverSent < MaxRaidFrames
    /\ serverSent' = serverSent + 1
    /\ wire' = Push(RaidFrame(type, s, raidID, target))
    /\ UNCHANGED <<poolVars, minerVars, now, frameLog, dispVars, betVars, auxVars>>

NextRaid ==
    \/ \E s \in Broadcasters, type \in {"raid_update_v2", "raid_go_v2"},
          raidID \in RaidIDs, target \in {"t", ""} : ServerRaid(s, type, raidID, target)
    \/ Tick /\ UNCHANGED <<betVars, auxVars>>
    \/ \E i \in 1..Len(ws) : RecvMessage(i)

SpecRaid == InitRaid /\ [][NextRaid]_vars

-----------------------------------------------------------------------------
(* SpecDrops: the DropsTracker's sync pass                                 *)

(* The campaigns of the drops dashboard; Drops counts the drops a campaign  *)
(* has left once the claimed ones are cleared.                              *)
CampaignPool ==
    {[ID |-> "k1", Game |-> "game1", Drops |-> 1],
     [ID |-> "k2", Game |-> "game2", Drops |-> 1],
     [ID |-> "k3", Game |-> "game1", Drops |-> 0]}

CampaignIDSets == SUBSET {c.ID : c \in CampaignPool}

Games == {"", "game1", "game2"}

(* Stream.GameID *)
GameID(stream) == stream.Game

(* Streamer.DropsCondition *)
DropsCondition(st) ==
    st.Settings.ClaimDrops /\ st.IsOnline /\ st.Stream.CampaignIDs # {}

(* UpdateStream, lines 272-279: Stream.Update stores the game, and the      *)
(* campaign ids are fetched when there is a game and drops are claimed.      *)
UpdateStreamDrops(st, game, ids) ==
    [st EXCEPT !.Stream.Game = game,
               !.Stream.CampaignIDs = IF game # "" /\ st.Settings.ClaimDrops THEN ids ELSE @]

(* updateStreamerCampaigns, one turn of its loop over the streamers.        *)
updateStreamerCampaigns(st, campaigns) ==
    IF ~DropsCondition(st) THEN st
    ELSE [st EXCEPT !.Stream.Campaigns =
            {c \in campaigns : /\ c.Drops # 0
                               /\ GameID(st.Stream) # ""
                               /\ c.Game = GameID(st.Stream)
                               /\ c.ID \in st.Stream.CampaignIDs}]

DropsStreamers ==
    {[LoadedStreamer(online) EXCEPT !.Settings.ClaimDrops = claim] :
        online \in BOOLEAN, claim \in BOOLEAN}

InitDrops ==
    /\ SubscribedPool
    /\ watcher = NewMinuteWatcher(<<>>, <<>>)
    /\ InitFeed
    /\ streamers \in [Broadcasters -> DropsStreamers]
    /\ handling = [i \in 1..NumClients |-> Idle]
    /\ balance = [s \in Broadcasters |-> InitialPoints]
    /\ contributed = [s \in Broadcasters |-> [g \in Goals |-> 0]]
    /\ InitBets

DropsRest == <<poolVars, minerVars, feedVars, handling, balance, contributed, betVars,
               startup, topicIO>>

(* syncCampaigns: the active campaigns are fetched and reconciled, stored,  *)
(* and updateStreamerCampaigns walks the streamers; nothing happens when    *)
(* the dashboard cannot be fetched.                                         *)
SyncCampaigns(fetched, active) ==
    /\ startup.pc = "mining"
    /\ IF fetched
       THEN /\ drops' = [campaigns |-> active, synced |-> TRUE]
            /\ streamers' = [s \in Broadcasters |->
                                updateStreamerCampaigns(streamers[s], active)]
       ELSE UNCHANGED <<drops, streamers>>
    /\ UNCHANGED DropsRest

(* CheckStreamerOnline: if the stream is probed it is live with a game and  *)
(* campaign ids, or it is not.                                              *)
DropsCheckOnline(s, streamOk, game, ids) ==
    /\ LET st == streamers[s]
           checked == CheckStreamerOnline(st, now, TRUE, streamOk)
       IN streamers' = [streamers EXCEPT ![s] =
             IF checked.probe = "live"
             THEN UpdateStreamDrops(checked, game, ids)
             ELSE checked]
    /\ drops' = [drops EXCEPT !.synced = FALSE]
    /\ UNCHANGED DropsRest

NextDrops ==
    \/ \E fetched \in BOOLEAN, active \in SUBSET CampaignPool : SyncCampaigns(fetched, active)
    \/ \E s \in Broadcasters, streamOk \in BOOLEAN, game \in Games, ids \in CampaignIDSets :
            DropsCheckOnline(s, streamOk, game, ids)
    \/ ElapseMinute

SpecDrops == InitDrops /\ [][NextDrops]_vars

-----------------------------------------------------------------------------
(* SpecTopic: Topic.String and ParseTopic                                  *)

(* Strings are sequences of characters here.  None of the seven topic kinds *)
(* holds a dot, so a kind is written as one character that is not a dot.    *)
MaxIDLen == 3

TopicKinds ==
    {TopicCommunityPointsUser, TopicPredictionsUser, TopicVideoPlaybackByID, TopicRaid,
     TopicPredictionsChannel, TopicCommunityMomentsChannel, TopicCommunityPointsChannel}

IDChars == {"1", "."}

ScopeIDs == UNION {[1..n -> IDChars] : n \in 1..MaxIDLen}

(* Topic.String: fmt.Sprintf("%s.%s", t.Type, t.ChannelID) *)
TopicChars(t) == <<t.Type>> \o <<".">> \o t.ChannelID

(* ParseTopic, the loop from index i down: the string is cut at the last    *)
(* dot.                                                                     *)
RECURSIVE ParseTopicFrom(_, _)
ParseTopicFrom(topicStr, i) ==
    IF i < 1 THEN [ok |-> FALSE, Type |-> <<>>, ChannelID |-> <<>>]
    ELSE IF topicStr[i] = "."
    THEN [ok |-> TRUE, Type |-> SubSeq(topicStr, 1, i - 1),
          ChannelID |-> SubSeq(topicStr, i + 1, Len(topicStr))]
    ELSE ParseTopicFrom(topicStr, i - 1)

ParseTopic(topicStr) == ParseTopicFrom(topicStr, Len(topicStr))

InitTopic ==
    /\ SubscribedPool
    /\ watcher = NewMinuteWatcher(<<>>, <<>>)
    /\ InitFeed
    /\ InitStreamers({TRUE})
    /\ serverEvent = [e \in Events |-> "none"]
    /\ predictions = [e \in Events |-> NoEvent]
    /\ bets = <<>>
    /\ submissions = <<>>
    /\ betCalc = NewBetOf(<<>>, BetSettings)
    /\ startup = Started
    /\ drops = NewDropsTracker
    /\ topicIO \in {[pc |-> "topic", topic |-> [Type |-> kind, ChannelID |-> id]] :
                        kind \in TopicKinds, id \in ScopeIDs}

(* A LISTEN frame is built: the topic is written as a string.               *)
TopicFormatted ==
    /\ topicIO.pc = "topic"
    /\ topicIO' = [pc |-> "string", topic |-> topicIO.topic, str |-> TopicChars(topicIO.topic)]
    /\ UNCHANGED <<poolVars, minerVars, feedVars, dispVars, betVars, startup, drops>>

(* ParsePubSubMessage: the topic string of a MESSAGE frame is parsed.       *)
TopicParsed ==
    /\ topicIO.pc = "string"
    /\ topicIO' = [pc |-> "parsed", topic |-> topicIO.topic, str |-> topicIO.str,
                   parsed |-> ParseTopic(topicIO.str)]
    /\ UNCHANGED <<poolVars, minerVars, feedVars, dispVars, betVars, startup, drops>>

NextTopic ==
    \/ TopicFormatted
    \/ TopicParsed

SpecTopic == InitTopic /\ [][NextTopic]_vars

-----------------------------------------------------------------------------
(* SpecStartup: Miner.Run from loadStreamers to startMining                *)

MaxConfigs == 3

(* One configured broadcaster: whether GetChannelID resolves its login and  *)
(* whether LoadChannelPointsContext succeeds for it.                        *)
StreamerConfigs == [resolvable : BOOLEAN, pointsOk : BOOLEAN]

ConfigLists == UNION {[1..n -> StreamerConfigs] : n \in 0..MaxConfigs}

(* LoadFromConfig: the GetChannelID error that makes the loop `continue`.   *)
SkippedOnPoints(sc) == ~sc.resolvable \/ ~sc.pointsOk

Skipped(sc) == ~sc.resolvable

NewStartup(configs) ==
    [pc |-> "load", configs |-> configs, i |-> 1, loaded |-> <<>>, err |-> "",
     sessions |-> 0, watcherStarted |-> FALSE, dropsStarted |-> FALSE]

InitStartup ==
    /\ SubscribedPool
    /\ watcher = NewMinuteWatcher(<<>>, <<>>)
    /\ InitFeed
    /\ InitStreamers({TRUE})
    /\ serverEvent = [e \in Events |-> "none"]
    /\ predictions = [e \in Events |-> NoEvent]
    /\ bets = <<>>
    /\ submissions = <<>>
    /\ betCalc = NewBetOf(<<>>, BetSettings)
    /\ topicIO = NoTopicIO
    /\ drops = NewDropsTracker
    /\ startup \in {NewStartup(configs) : configs \in ConfigLists}

StartupRest == <<poolVars, minerVars, feedVars, dispVars, betVars, topicIO, drops>>

(* LoadFromConfig, one pass of the loop over the configs.                   *)
LoadNext ==
    /\ startup.pc = "load"
    /\ startup.i <= Len(startup.configs)
    /\ LET sc == startup.configs[startup.i]
       IN startup' = [startup EXCEPT
              !.i = @ + 1,
              !.loaded = IF Skipped(sc) THEN @ ELSE Append(@, startup.i)]
    /\ UNCHANGED StartupRest

(* LoadFromConfig after the loop, and Run's return on its error.            *)
LoadReturns ==
    /\ startup.pc = "load"
    /\ startup.i > Len(startup.configs)
    /\ startup' = IF Len(startup.loaded) = 0
                  THEN [startup EXCEPT !.pc = "aborted", !.err = "no valid streamers found"]
                  ELSE [startup EXCEPT !.pc = "setup"]
    /\ UNCHANGED StartupRest

(* setupComponents: the pool, the watcher and the drops tracker are built,  *)
(* none is started.                                                         *)
SetupComponents ==
    /\ startup.pc = "setup"
    /\ startup' = [startup EXCEPT !.pc = "subscribe"]
    /\ UNCHANGED StartupRest

(* subscribeToTopics: the first Submit opens the first session; Run returns *)
(* when a Submit of a user topic fails.                                     *)
SubscribeTopics ==
    /\ startup.pc = "subscribe"
    /\ \E dialed \in BOOLEAN :
          startup' = IF dialed
                     THEN [startup EXCEPT !.pc = "start", !.sessions = 1]
                     ELSE [startup EXCEPT !.pc = "aborted", !.err = "failed to subscribe to topics"]
    /\ UNCHANGED StartupRest

(* startMining: watcher.Start and dropsTracker.Start.                       *)
StartMining ==
    /\ startup.pc = "start"
    /\ startup' = [startup EXCEPT !.pc = "mining", !.watcherStarted = TRUE,
                                  !.dropsStarted = TRUE]
    /\ UNCHANGED StartupRest

NextStartup ==
    \/ LoadNext
    \/ LoadReturns
    \/ SetupComponents
    \/ SubscribeTopics
    \/ StartMining

SpecStartup == InitStartup /\ [][NextStartup]_vars

-----------------------------------------------------------------------------
(* The decision of a bet: outcomes of every length, every strategy          *)

MaxOutcomes == 3
MaxUpdates == 2

Strategies ==
    {"MOST_VOTED", "HIGH_ODDS", "PERCENTAGE", "SMART_MONEY", "SMART"}
        \cup {NumberStrategies[k] : k \in 0..7}

(* The totals an event-updated frame reports for one outcome.               *)
OutcomeTotals ==
    {[total_users |-> 0, total_points |-> 0, top_predictors |-> <<>>],
     [total_users |-> 1, total_points |-> PointCost, top_predictors |-> <<PointCost>>],
     [total_users |-> 3, total_points |-> 3 * PointCost,
      top_predictors |-> <<PointCost, PointCost + 5>>]}

OutcomeIDs == [i \in 1..MaxOutcomes |-> "o" \o ToString(i)]

(* The outcomes of an event-created frame with n outcomes.                  *)
CreatedOutcomes(n) ==
    [i \in 1..n |-> [id |-> OutcomeIDs[i], total_users |-> 0, total_points |-> 0]]

UpdateFrames == UNION {[1..n -> OutcomeTotals] : n \in 0..MaxOutcomes}

ChoiceSettings ==
    {[BetSettings EXCEPT !.Strategy = strategy, !.PercentageGap = gap, !.StealthMode = stealth] :
        strategy \in Strategies, gap \in {0, BetSettings.PercentageGap}, stealth \in BOOLEAN}

(* The points of the broadcaster when the bet is placed.                    *)
ChoiceBalances == {InitialPoints, InitialPoints + 2 * PointGain}

(* handlePredictionChannel, event-created: the bet of a new event.          *)
InitChoice ==
    /\ SubscribedPool
    /\ watcher = NewMinuteWatcher(<<>>, <<>>)
    /\ InitFeed
    /\ streamers \in [Broadcasters -> {SetChannelPoints(LoadedStreamer(TRUE), points) :
                                          points \in ChoiceBalances}]
    /\ handling = [i \in 1..NumClients |-> Idle]
    /\ balance = [s \in Broadcasters |-> GetChannelPoints(streamers[s])]
    /\ contributed = [s \in Broadcasters |-> [g \in Goals |-> 0]]
    /\ serverEvent = [e \in Events |-> "none"]
    /\ predictions = [e \in Events |-> NoEvent]
    /\ bets = <<>>
    /\ submissions = <<>>
    /\ betCalc \in {NewBetOf(CreatedOutcomes(n), settings) :
                        n \in 0..MaxOutcomes, settings \in ChoiceSettings}
    /\ startup = Started
    /\ topicIO = NoTopicIO
    /\ drops = NewDropsTracker

(* handlePredictionChannel, event-updated: the outcomes of the frame are    *)
(* taken before the bet is placed.                                          *)
BetOutcomesUpdated(outcomes) ==
    /\ betCalc.pc \in {"new", "updated"}
    /\ betCalc.updates < MaxUpdates
    /\ betCalc' = [UpdateOutcomes(betCalc, outcomes) EXCEPT !.pc = "updated",
                                                            !.updates = @ + 1]
    /\ UNCHANGED <<poolVars, minerVars, feedVars, dispVars, serverEvent, predictions, bets,
                   submissions, auxVars>>

(* TwitchClient.MakePrediction up to the request: the decision, and the     *)
(* request unless the amount is below 10 (no filter condition is set).      *)
BetCalculated(c, reduce) ==
    /\ betCalc.pc \in {"new", "updated"}
    /\ LET decision == Calculate(betCalc, GetChannelPoints(streamers[c]), reduce)
       IN betCalc' = [betCalc EXCEPT !.Decision = decision, !.pc = "calculated",
                                     !.submitted = ~decision.panic /\ decision.Amount >= 10,
                                     !.points = GetChannelPoints(streamers[c])]
    /\ UNCHANGED <<poolVars, minerVars, feedVars, dispVars, serverEvent, predictions, bets,
                   submissions, auxVars>>

NextChoice ==
    \/ \E outcomes \in UpdateFrames : BetOutcomesUpdated(outcomes)
    \/ \E c \in Broadcasters, reduce \in 1..4 : BetCalculated(c, reduce)

SpecChoice == InitChoice /\ [][NextChoice]_vars

(* The outcomes an event-created frame can carry: bets may have been taken  *)
(* by the time the frame is built.                                          *)
CreatedFrames ==
    UNION {[1..n -> {[id |-> "o", total_users |-> t.total_users,
                      total_points |-> t.total_points] : t \in OutcomeTotals}] :
             n \in 0..MaxOutcomes}

(* The bet of a new event whose deferred bet fires before any event-updated *)
(* frame.                                                                   *)
InitCreated ==
    /\ SubscribedPool
    /\ watcher = NewMinuteWatcher(<<>>, <<>>)
    /\ InitFeed
    /\ streamers \in [Broadcasters -> {SetChannelPoints(LoadedStreamer(TRUE), points) :
                                          points \in ChoiceBalances}]
    /\ handling = [i \in 1..NumClients |-> Idle]
    /\ balance = [s \in Broadcasters |-> GetChannelPoints(streamers[s])]
    /\ contributed = [s \in Broadcasters |-> [g \in Goals |-> 0]]
    /\ serverEvent = [e \in Events |-> "none"]
    /\ predictions = [e \in Events |-> NoEvent]
    /\ bets = <<>>
    /\ submissions = <<>>
    /\ betCalc \in {NewBetOf([i \in 1..Len(frame) |-> [frame[i] EXCEPT !.id = OutcomeIDs[i]]],
                              settings) :
                        frame \in CreatedFrames, settings \in ChoiceSettings}
    /\ startup = Started
    /\ topicIO = NoTopicIO
    /\ drops = NewDropsTracker

NextCreated ==
    \E c \in Broadcasters, reduce \in 1..4 : BetCalculated(c, reduce)

SpecCreated == InitCreated /\ [][NextCreated]_vars

-----------------------------------------------------------------------------
(* Properties of the pool, checked under SpecPool                          *)

HasTopicString(w, str) ==
    \E k \in 1..Len(w.topics) : TopicString(w.topics[k]) = str

ReconnectRunning(i) == \E r \in 1..Len(recon) : recon[r].ws = i

RECURSIVE TotalTopicCount(_)
TotalTopicCount(k) ==
    IF k = 0 THEN 0 ELSE TopicCount(ws[clients[k]]) + TotalTopicCount(k - 1)

(* C1: at every moment every WebSocket session has at most 50 topics        *)
(* attached, whatever the interleaving of Submit calls and reconnects.      *)
C1_AtMost50Topics ==
    \A i \in 1..Len(ws) : TopicCount(ws[i]) <= MaxTopicsPerConnection

(* C2: while the pool is not closed, once a reconnect of a session has      *)
(* ended in a successful reopen (and none is running), every topic that a   *)
(* successful Submit handed to that session is in its topic list and has    *)
(* been LISTENed on the reopened transport.                                 *)
C2_ResubscribedAfterReopen ==
    ~poolClosed =>
        \A i \in 1..Len(ws) :
            (ws[i].reopened /\ ~ReconnectRunning(i)) =>
                \A t \in ws[i].assigned :
                    HasTopicString(ws[i], t) /\ t \in ws[i].listening

(* C6: once Close has returned no session opens a transport or sends a      *)
(* LISTEN or PING frame.                                                    *)
C6_NoTrafficAfterClose == afterClose = {}

(* C8: absent reconnects, every topic that was subscribed, however often,   *)
(* has had exactly one LISTEN frame on the wire.                            *)
C8_OneListenPerTopic ==
    (reconnectFrames = 0) => \A t \in subscribed : listenCount[t] = 1

(* C9: at every moment the topic counts of the pool's sessions add up to    *)
(* the number of distinct topics subscribed (the pool has no unsubscribe,   *)
(* so none is ever subtracted).                                             *)
C9_TotalTopicCount ==
    ~poolClosed => TotalTopicCount(Len(clients)) = Cardinality(subscribed)

-----------------------------------------------------------------------------
(* Properties of the sessions' error handling, checked under SpecSession   *)

(* C4: a session that has met a read error, an ERR_BADAUTH response or a    *)
(* RECONNECT frame (and was not closed on purpose) has had its reconnect    *)
(* started.                                                                 *)
C4_TriggerStartsReconnect ==
    \A i \in 1..Len(ws) :
        (ws[i].trigger # {} /\ ~ws[i].forcedClose) => ws[i].reconnects > 0

BadAuthReported == \E i \in 1..Len(ws) : "ERR_BADAUTH" \in handleError(ws[i])

(* C5: once a session has reported ERR_BADAUTH the supervisor shuts the     *)
(* miner down.                                                              *)
C5_BadAuthShutsDown == BadAuthReported ~> minerStopped

-----------------------------------------------------------------------------
(* Properties of the frames and the dispatcher, checked under SpecDispatch *)

(* Frames a and b of the log were read by one session, carry the same       *)
(* {event-type, topic, channel-id} and b was read less than 1 s after a.    *)
SameKeyWithinSecond(a, b) ==
    /\ a < b
    /\ frameLog[a].ws = frameLog[b].ws
    /\ frameLog[a].id = frameLog[b].id
    /\ frameLog[b].at - frameLog[a].at < TicksPerSecond

NoOtherKeyBetween(a, b) ==
    \A c \in (a + 1)..(b - 1) :
        frameLog[c].ws = frameLog[a].ws => frameLog[c].id = frameLog[a].id

(* C7, as stated: of any two MESSAGE frames with the same key read within   *)
(* 1 s of each other, whatever was read between them, exactly one is        *)
(* dispatched.                                                              *)
C7_ExactlyOneDispatched ==
    \A a, b \in 1..Len(frameLog) :
        SameKeyWithinSecond(a, b) => (frameLog[a].dispatched # frameLog[b].dispatched)

(* C7, amended: of two MESSAGE frames with the same key read by one session *)
(* within 1 s of each other, with no frame of another key read by that      *)
(* session between them, at most one is dispatched.                         *)
C7_AtMostOneOfARun ==
    \A a, b \in 1..Len(frameLog) :
        (SameKeyWithinSecond(a, b) /\ NoOtherKeyBetween(a, b))
            => ~(frameLog[a].dispatched /\ frameLog[b].dispatched)

C7_DuplicateDropped ==
    \E a, b \in 1..Len(frameLog) :
        /\ SameKeyWithinSecond(a, b) /\ NoOtherKeyBetween(a, b)
        /\ frameLog[a].dispatched /\ ~frameLog[b].dispatched

PointsDecrease(s) == streamers'[s].ChannelPoints < streamers[s].ChannelPoints

(* The step reads a frame of one of these types for channel s and hands it  *)
(* to the dispatcher.                                                       *)
HandlesFrame(types, s) ==
    /\ Len(frameLog') = Len(frameLog) + 1
    /\ LET e == frameLog'[Len(frameLog')]
       IN e.dispatched /\ e.Type \in types /\ e.ChannelID = s

(* The step is the return of ContributeToCommunityGoal for channel s.       *)
CompletesContribution(s) ==
    \E i \in DOMAIN handling :
        handling[i].pc = "accepted" /\ handling[i].s = s /\ handling'[i] # handling[i]

InHandler(j, s) == handling[j] # Idle /\ handling[j].s = s

(* The step is session i handing a frame of broadcaster s to the dispatcher. *)
Dispatches(i, s) ==
    /\ Len(frameLog') = Len(frameLog) + 1
    /\ LET e == frameLog'[Len(frameLog')]
       IN e.dispatched /\ e.ws = i /\ e.ChannelID = s

(* C12: handler executions that mutate the same broadcaster never overlap:  *)
(* no session starts handling a frame of a broadcaster while another        *)
(* session is inside a handler for that broadcaster.                        *)
C12_HandlersNeverOverlap ==
    [][\A i \in 1..Len(ws), s \in Broadcasters :
          Dispatches(i, s) => \A j \in 1..Len(ws) : j # i => ~InHandler(j, s)]_vars

-----------------------------------------------------------------------------
(* Properties of the deferred bets, checked under SpecBets                 *)

(* C3: every MakePrediction request is posted for an event whose status is  *)
(* ACTIVE at that moment: none is posted once an event-updated has moved    *)
(* the status away from ACTIVE.                                             *)
C3_NoBetOnceNotActive ==
    \A k \in 1..Len(submissions) : submissions[k].status = PredictionActive

-----------------------------------------------------------------------------
(* Properties of the online state, checked under SpecOnline                *)

(* C11: at every moment a broadcaster has an online-since time exactly when *)
(* its online flag is set.                                                  *)
C11_OnlineSinceIffOnline ==
    \A s \in Broadcasters : ~IsZero(streamers[s].OnlineAt) <=> streamers[s].IsOnline

-----------------------------------------------------------------------------
(* Properties of the MinuteWatcher, checked under SpecWatch                *)

BeaconedStreamers == {watcher.beacons[k].idx : k \in 1..Len(watcher.beacons)}

(* C13: in every cycle beacons are emitted for at most 2 distinct           *)
(* streamers, whatever the priority list and the online streamers.          *)
C13_AtMostTwoBeaconed == Cardinality(BeaconedStreamers) <= MaxSimultaneousStreams

(* A cycle has beaconed two streamers although more were online and the     *)
(* priorities offered more than two candidates.                             *)
C13_TwoOfManyBeaconed ==
    /\ Cardinality(BeaconedStreamers) = MaxSimultaneousStreams
    /\ Len(getOnlineStreamers(watcher.streamers)) > MaxSimultaneousStreams
    /\ Len(watcher.walked) = 2
    /\ Cardinality(Elems(watcher.walked[1]) \cup Elems(watcher.walked[2]))
            > MaxSimultaneousStreams

(* The candidates of all priorities, one priority after the other.          *)
RECURSIVE Flatten(_, _)
Flatten(walked, p) ==
    IF p > Len(walked) THEN <<>> ELSE walked[p] \o Flatten(walked, p + 1)

(* Walking the candidates in that order and adding each one not yet in the  *)
(* set until the set has 2 members: a candidate is added exactly if fewer   *)
(* than 2 different candidates come before one of its places.               *)
WalkedSelection(walked) ==
    LET flat == Flatten(walked, 1)
    IN {flat[k] : k \in {n \in 1..Len(flat) :
                            Cardinality({flat[j] : j \in 1..(n - 1)}) < MaxSimultaneousStreams}}

(* Priorities [DROPS, ORDER] with online streamers A, B, C, D of which A    *)
(* and C meet the drops condition.                                          *)
DropsOrderExample ==
    /\ watcher.priorities = <<"DROPS", "ORDER">>
    /\ getOnlineStreamers(watcher.streamers) = <<1, 2, 3, 4>>
    /\ {i \in 1..4 : watcher.streamers[i].DropsCondition} = {1, 3}

(* C14: the set selected in a cycle is the one obtained by walking the      *)
(* priority list in order and adding, for each priority, its candidates in  *)
(* their order, skipping those already selected, until 2 are selected; for  *)
(* priorities [DROPS, ORDER] and online A (drops), B, C (drops), D it is    *)
(* {A, C}.                                                                  *)
C14_SelectionIsTheWalk ==
    (watcher.pc \in {"sending", "between", "cyclesleep", "exited"} /\ watcher.walked # <<>>) =>
        /\ Elems(watcher.selection) = WalkedSelection(watcher.walked)
        /\ DropsOrderExample => Elems(watcher.selection) = {1, 3}

C14_ExampleSelected ==
    /\ DropsOrderExample
    /\ watcher.pc = "between"
    /\ Elems(watcher.selection) = {1, 3}

(* C15: within a cycle the beacons are emitted in selection order: the k-th *)
(* beacon goes to the k-th streamer added to the selection.                 *)
C15_BeaconsInSelectionOrder ==
    \A k \in 1..Len(watcher.beacons) : watcher.beacons[k].idx = watcher.selection[k]

(* C20: once the context is cancelled the watcher starts no beacon.         *)
C20_NoBeaconAfterCancel ==
    \A k \in 1..Len(watcher.beacons) : ~watcher.beacons[k].cancelled

ChoiceInRangeOf(b) == b.Decision.Choice >= 0 /\ b.Decision.Choice < Len(b.Outcomes)

(* The lowest Go index whose value under key is the largest; the list is   *)
(* not empty.                                                               *)
ArgMaxFirst(outcomes, key) ==
    CHOOSE i \in 0..(Len(outcomes) - 1) :
        /\ \A j \in 0..(Len(outcomes) - 1) : outcomes[j + 1][key] <= outcomes[i + 1][key]
        /\ \A j \in 0..(i - 1) : outcomes[j + 1][key] < outcomes[i + 1][key]

SmartWithoutGap ==
    /\ betCalc.pc = "calculated"
    /\ betCalc.Settings.Strategy = "SMART"
    /\ betCalc.Settings.PercentageGap = 0
    /\ Len(betCalc.Outcomes) >= 2

C17_ChoiceInRangeOrNoBet ==
    betCalc.pc = "calculated" =>
        /\ ~betCalc.Decision.panic
        /\ \/ ChoiceInRangeOf(betCalc)
           \/ ~betCalc.submitted

(* A NUMBER_k strategy with fewer outcomes than it asks for places a bet    *)
(* on the first outcome, and an empty list places none.                     *)
C17_NumberBeyondListBetsFirst ==
    /\ betCalc.pc = "calculated"
    /\ betCalc.Settings.Strategy = "NUMBER_3"
    /\ Len(betCalc.Outcomes) = 2
    /\ betCalc.submitted
    /\ betCalc.Decision.Choice = 0

(* C18: after a prediction-result for event E has been handled, or after    *)
(* the status of E has become RESOLVED or CANCELED, E is no longer in the   *)
(* prediction map of the dispatcher: no event of the map has a result or    *)
(* one of the two statuses.                                                 *)
C18_EndedEventsRemoved ==
    \A e \in Events :
        predictions[e] # NoEvent =>
            /\ predictions[e].Result = ""
            /\ predictions[e].Status \notin {PredictionResolved, PredictionCanceled}

(* C19: whenever more than 5 minutes have passed since the last PONG of a   *)
(* session that is not reconnecting, in a pool that is not closed, the next *)
(* liveness check of the session starts a reconnect of it.                  *)
C19_OverdueCheckReconnects ==
    [][\A i \in 1..Len(ws) :
            (/\ ws'[i].nextCheck # ws[i].nextCheck
             /\ PingLoopRuns(ws[i])
             /\ ~poolClosed /\ ~ws[i].isReconnecting
             /\ now - ws[i].lastPong > PongTimeoutMinutes * Minute)
            => /\ Len(recon') = Len(recon) + 1
               /\ recon'[Len(recon')] = NewReconnect(i)]_vars

(* The reconnect a liveness check started has closed the transport of a     *)
(* session whose last PONG is overdue.                                      *)
C19_OverdueSessionReconnecting ==
    \E i \in 1..Len(ws) :
        /\ ws[i].reconnects = 1 /\ ws[i].isReconnecting /\ ~poolClosed
        /\ now - ws[i].lastPong > PongTimeoutMinutes * Minute

(* C21: after the pool has been closed by the supervisor, a deferred bet    *)
(* whose wait is not over never posts a MakePrediction request: no request  *)
(* comes from a bet that woke with the pool closed.                         *)
C21_NoSubmissionAfterClose ==
    \A k \in 1..Len(submissions) : ~submissions[k].afterClose

(* C22: on every transition of a broadcaster from online to offline its    *)
(* stream record (minutes watched, pending watch streak, metadata) is reset *)
(* as part of the transition.                                               *)
C22_OfflineResetsStream ==
    [][\A s \in Broadcasters :
            (streamers[s].IsOnline /\ ~streamers'[s].IsOnline)
                => streamers'[s].Stream = NewStream]_vars

(* The topics were submitted one after the other and nothing else happened: *)
(* no RECONNECT frame, no failed dial, no Close, no topic submitted again   *)
(* to a client that did not hold it.                                        *)
PlainSubscription ==
    /\ reconnectFrames = 0 /\ dialFailures = 0 /\ ~poolClosed
    /\ \A t \in TopicStrings : listenCount[t] <= 1

(* C23: subscribing 51 distinct topics in sequence to a fresh pool opens    *)
(* exactly 2 sessions with 50 topics and 1 topic: the first 50 topics are   *)
(* on the first session and the 51st on the second.                         *)
C23_FiftyOneTopicsTwoSessions ==
    (nextTopic = MaxTopicsPerConnection + 1 /\ PlainSubscription) =>
        /\ Len(clients) = 2 /\ Len(ws) = 2
        /\ ws[clients[1]].topics = SubSeq(subscribeToTopics, 1, MaxTopicsPerConnection)
        /\ ws[clients[2]].topics = <<subscribeToTopics[MaxTopicsPerConnection + 1]>>

C23_FiftyOneSubscribed ==
    /\ nextTopic = MaxTopicsPerConnection + 1 /\ PlainSubscription
    /\ TopicCount(ws[clients[1]]) = MaxTopicsPerConnection
    /\ TopicCount(ws[clients[2]]) = 1

(* The event-created frames the dispatcher handled whose prediction window  *)
(* is shorter than the delay of the FROM_END mode of the broadcaster.       *)
ShortWindowFrames ==
    {k \in 1..Len(frameLog) :
        /\ frameLog[k].Type = "event-created" /\ frameLog[k].dispatched
        /\ LET bet == streamers[frameLog[k].ChannelID].Settings.Bet
           IN /\ bet.DelayMode = "FROM_END"
              /\ bet.Delay > frameLog[k].Data.event.prediction_window_seconds}

(* C24: with the delay mode FROM_END and a delay greater than the           *)
(* prediction window the adjusted window is 0, the event is not enrolled    *)
(* and no bet is ever submitted for it.                                     *)
C24_ShortWindowNeverBet ==
    \A k \in ShortWindowFrames :
        LET data == frameLog[k].Data.event
            bet == streamers[frameLog[k].ChannelID].Settings.Bet
        IN /\ GetPredictionWindow(bet, data.prediction_window_seconds) = 0
           /\ predictions[data.id] = NoEvent
           /\ \A b \in 1..Len(bets) : bets[b].event # data.id
           /\ \A j \in 1..Len(submissions) : submissions[j].event # data.id

(* Such a frame was handled for a live broadcaster and the clock has run on. *)
C24_ShortWindowHandled ==
    \E k \in ShortWindowFrames :
        /\ GetIsOnline(streamers[frameLog[k].ChannelID])
        /\ now > frameLog[k].at

(* C25: for every topic kind and every non-empty scope id, whatever its     *)
(* characters, parsing the formatted topic string gives back the kind and   *)
(* the id.                                                                  *)
C25_ParseInvertsFormat ==
    topicIO.pc = "parsed" =>
        /\ topicIO.parsed.ok
        /\ topicIO.parsed.Type = <<topicIO.topic.Type>>
        /\ topicIO.parsed.ChannelID = topicIO.topic.ChannelID

Resolvable(configs) == {k \in 1..Len(configs) : configs[k].resolvable}

NothingStarted ==
    startup.sessions = 0 /\ ~startup.watcherStarted /\ ~startup.dropsStarted

(* C26: once loading is over, the loaded broadcasters are exactly the       *)
(* configured ones whose login resolves; when none resolves, startup aborts *)
(* with an error and no session, watcher or drops tracker is ever started.  *)
C26_UnresolvedAbsentOrAbort ==
    /\ (startup.pc \in {"setup", "subscribe", "start", "mining"} =>
            Elems(startup.loaded) = Resolvable(startup.configs))
    /\ (startup.pc # "load" /\ Resolvable(startup.configs) = {} =>
            startup.pc = "aborted" /\ startup.err = "no valid streamers found")
    /\ (startup.pc # "mining" \/ Len(startup.loaded) > 0)
    /\ (Resolvable(startup.configs) = {} /\ startup.pc \in {"load", "aborted"} => NothingStarted)

C26_MiningWithoutUnresolved ==
    /\ startup.pc = "mining"
    /\ startup.watcherStarted
    /\ \E k \in 1..Len(startup.configs) : ~startup.configs[k].resolvable
    /\ \E k \in 1..Len(startup.configs) :
          startup.configs[k].resolvable /\ ~startup.configs[k].pointsOk

(* C27: at every moment each session has at most one running reader and at  *)
(* most one running heartbeater, also after reconnects.                     *)
C27_OneReaderOneHeartbeater ==
    \A i \in 1..Len(ws) : ws[i].readers <= 1 /\ ws[i].pingers <= 1

(* C28: every broadcaster selected in a cycle has its online flag set (and   *)
(* has been online for more than 30 s) when the selection runs, after the   *)
(* refresh of the stale candidates.                                         *)
C28_SelectedAreOnline ==
    \A k \in 1..Len(watcher.selection) : watcher.streamers[watcher.selection[k]].IsOnline

(* The statistics of the outcomes derived from the totals the bet holds:    *)
(* percentageUsers = 100 * users / totalUsers, odds = totalPoints / points, *)
(* oddsPercentage = 100 / odds, in hundredths, zero where the divisor is    *)
(* zero.                                                                    *)
DerivedFromTotals(b) ==
    LET users == SumOf(b.Outcomes, "TotalUsers", 1)
        points == SumOf(b.Outcomes, "TotalPoints", 1)
        rated(o) ==
            LET odds == IF o.TotalPoints > 0 THEN RoundHundredths(points, o.TotalPoints) ELSE 0
            IN [o EXCEPT !.PercentageUsers = IF users > 0
                                             THEN RoundHundredths(o.TotalUsers * 100, users)
                                             ELSE 0,
                         !.Odds = odds,
                         !.OddsPercentage = IF odds > 0 THEN RoundHundredths(100 * 100, odds)
                                            ELSE 0]
    IN [b EXCEPT !.Outcomes = [i \in 1..Len(b.Outcomes) |-> rated(b.Outcomes[i])]]

(* C29: when the bet fires, the choice is the one the strategy makes from   *)
(* the statistics derived from the totals the event holds at that moment,   *)
(* also when no event-updated frame came after event-created.               *)
C29_ChoiceFromCurrentTotals ==
    betCalc.pc = "calculated" =>
        betCalc.Decision.Choice = StrategyChoice(DerivedFromTotals(betCalc))

(* C30: an event-created frame is enrolled (the prediction stored and a     *)
(* deferred bet started) only if predictions are enabled for the            *)
(* broadcaster, the broadcaster is online, the event is ACTIVE, its id is   *)
(* not tracked yet, and the broadcaster's points are strictly greater than  *)
(* the minimum points of the bet settings, whatever that minimum is.        *)
C30_EnrolledOnlyIfEligible ==
    [][Len(bets') = Len(bets) + 1 =>
         LET e == bets'[Len(bets')].event
             st == streamers[predictions'[e].Streamer]
         IN /\ st.Settings.MakePredictions
            /\ GetIsOnline(st)
            /\ predictions'[e].Status = PredictionActive
            /\ predictions[e] = NoEvent
            /\ GetChannelPoints(st) > st.Settings.Bet.MinimumPoints]_vars

(* C31: the points of a broadcaster are never negative, however the         *)
(* contributions to community goals interleave with the points-earned and   *)
(* points-spent frames of the broadcaster.                                  *)
C31_PointsNeverNegative ==
    \A s \in Broadcasters : GetChannelPoints(streamers[s]) >= 0

(* The frame session i is handling: the last one it read.                   *)
HandledFrame(i) ==
    LET ks == {k \in 1..Len(frameLog) : frameLog[k].ws = i}
    IN frameLog[CHOOSE k \in ks : \A j \in ks : j <= k]

(* C32: handling a community-goal-created or community-goal-updated frame   *)
(* for goal G issues contribution calls for goal G only, and only when G is *)
(* STARTED and in stock, with at most the amount left of G.                 *)
C32_ContributesToEventGoalOnly ==
    \A i \in 1..Len(ws) :
        handling[i].pc = "post" =>
            LET goal == HandledFrame(i).Data.community_goal
            IN /\ handling[i].goal = goal.GoalID
               /\ goal.Status = CommunityGoalStarted /\ goal.IsInStock
               /\ handling[i].amount <= AmountLeft(goal)

(* C33: after a sync pass of the drops tracker, the campaigns of every      *)
(* online broadcaster are exactly the retained campaigns of the game of its *)
(* stream whose id is among the campaign ids of the stream; none when there *)
(* are no campaign ids or drops are not claimed.                            *)
C33_CampaignsMatchAfterSync ==
    drops.synced =>
        \A s \in Broadcasters :
            streamers[s].IsOnline =>
                streamers[s].Stream.Campaigns =
                    {c \in drops.campaigns :
                        /\ c.Drops # 0
                        /\ streamers[s].Settings.ClaimDrops
                        /\ c.Game = streamers[s].Stream.Game
                        /\ c.ID \in streamers[s].Stream.CampaignIDs}

(* The step dispatches a frame of the type, read on the topic kind.         *)
DispatchesType(type, topicType) ==
    /\ Len(frameLog') = Len(frameLog) + 1
    /\ frameLog'[Len(frameLog')].dispatched
    /\ frameLog'[Len(frameLog')].Type = type
    /\ \E i \in 1..Len(ws) : wire[i] # <<>> /\ wire'[i] = Tail(wire[i])
                               /\ Head(wire[i]).Topic.Type = topicType

(* C34: with raid-following enabled a raid_update_v2 frame makes the miner  *)
(* post a JoinRaid request exactly if its raid id is not the one recorded   *)
(* on the broadcaster, and the id is recorded then, so consecutive frames   *)
(* with one raid id give one request; with raid-following disabled no       *)
(* request is posted.                                                       *)
C34_JoinRaidOncePerRaid ==
    [][\A s \in Broadcasters :
         LET st == streamers[s]
             posts == st.joinRaidPosts
             posts2 == streamers'[s].joinRaidPosts
             raid == frameLog'[Len(frameLog')].Data.raid
             due == /\ DispatchesType("raid_update_v2", TopicRaid)
                    /\ frameLog'[Len(frameLog')].ChannelID = s
                    /\ st.Settings.FollowRaid
                    /\ raid.id # "" /\ raid.target_login # ""
                    /\ raid.id # st.Raid
         IN /\ posts2 # posts => due
            /\ due => posts2 = Append(posts, raid.id) /\ streamers'[s].Raid = raid.id
            /\ ~st.Settings.FollowRaid => posts2 = <<>>]_vars

(* The frame of one raid was dispatched twice and one request was posted.   *)
C34_SameRaidTwiceOnePost ==
    \E s \in Broadcasters :
        /\ streamers[s].joinRaidPosts = <<"r1">>
        /\ Cardinality({k \in 1..Len(frameLog) :
                            /\ frameLog[k].dispatched
                            /\ frameLog[k].Type = "raid_update_v2"
                            /\ frameLog[k].Data.raid = [id |-> "r1", target_login |-> "t"]}) = 2

-----------------------------------------------------------------------------
(* SpecAmount: the amount of a bet                                         *)

(* Bet settings with every percentage from nothing to all, a cap below and  *)
(* above the balances, and stealth mode on and off.                         *)
AmountSettings ==
    {[BetSettings EXCEPT !.Strategy = strategy, !.Percentage = percentage,
                         !.MaxPoints = maxPoints, !.StealthMode = stealth] :
        strategy \in {"MOST_VOTED", "NUMBER_1"}, percentage \in {0, 50, 100},
        maxPoints \in {PointCost + 5, BetSettings.MaxPoints}, stealth \in BOOLEAN}

AmountBalances == {0, InitialPoints, InitialPoints + 2 * PointGain}

InitAmount ==
    /\ SubscribedPool
    /\ watcher = NewMinuteWatcher(<<>>, <<>>)
    /\ InitFeed
    /\ streamers \in [Broadcasters -> {SetChannelPoints(LoadedStreamer(TRUE), points) :
                                          points \in AmountBalances}]
    /\ handling = [i \in 1..NumClients |-> Idle]
    /\ balance = [s \in Broadcasters |-> GetChannelPoints(streamers[s])]
    /\ contributed = [s \in Broadcasters |-> [g \in Goals |-> 0]]
    /\ serverEvent = [e \in Events |-> "none"]
    /\ predictions = [e \in Events |-> NoEvent]
    /\ bets = <<>>
    /\ submissions = <<>>
    /\ betCalc \in {NewBetOf(CreatedOutcomes(2), settings) : settings \in AmountSettings}
    /\ startup = Started
    /\ topicIO = NoTopicIO
    /\ drops = NewDropsTracker

SpecAmount == InitAmount /\ [][NextChoice]_vars

-----------------------------------------------------------------------------
(* SpecReconnect: reconnects against the clock                              *)

(* Every running pingLoop has taken the tick of its checkTicker that is due. *)
TicksTaken == \A i \in 1..Len(ws) : PingLoopRuns(ws[i]) => now < ws[i].nextCheck

(* reconnect, line 367: time.Sleep(60 * time.Second) returns, after the     *)
(* tick of the same instant.                                                *)
ReconnectSleepEnds(r) ==
    /\ recon[r].pc = "sleep"
    /\ now >= recon[r].due
    /\ TicksTaken
    /\ ReconnectWake(r)

(* Half a minute passes.  Goroutines that neither sleep nor dial have taken *)
(* their steps, no sleep overruns its 60 s and no dial its                  *)
(* HandshakeTimeout.                                                        *)
HalfMinutePasses ==
    /\ now < (PongTimeoutMinutes + 1) * Minute
    /\ TicksTaken
    /\ \A r \in 1..Len(recon) :
            /\ recon[r].pc \in {"sleep", "dial"}
            /\ now + HandshakeTimeout <= recon[r].due
    /\ now' = now + HandshakeTimeout
    /\ UNCHANGED <<poolVars, minerVars, frameLog, wire, serverSent, dispVars, betVars, auxVars>>

NextReconnect ==
    \/ HalfMinutePasses
    \/ \E i \in 1..Len(ws) : RecvPong(i) /\ UNCHANGED <<minerVars, feedVars, dispVars, betVars, auxVars>>
    \/ \E i \in 1..Len(ws) : PingCheck(i) /\ UNCHANGED <<minerVars, feedVars, dispVars, betVars, auxVars>>
    \/ \E i \in 1..Len(ws) : RecvReconnect(i) /\ UNCHANGED <<minerVars, feedVars, dispVars, betVars, auxVars>>
    \/ \E r \in 1..Len(recon) : ReconnectStart(r) /\ UNCHANGED <<minerVars, feedVars, dispVars, betVars, auxVars>>
    \/ \E r \in 1..Len(recon) : ReconnectSleepEnds(r) /\ UNCHANGED <<minerVars, feedVars, dispVars, betVars, auxVars>>
    \/ \E r \in 1..Len(recon) : ReconnectReset(r) /\ UNCHANGED <<minerVars, feedVars, dispVars, betVars, auxVars>>
    \/ \E r \in 1..Len(recon) : ReconnectDialOk(r) /\ UNCHANGED <<minerVars, feedVars, dispVars, betVars, auxVars>>
    \/ \E r \in 1..Len(recon) : ReconnectDialFails(r) /\ UNCHANGED <<minerVars, feedVars, dispVars, betVars, auxVars>>
    \/ \E r \in 1..Len(recon) : ReconnectRelisten(r) /\ UNCHANGED <<minerVars, feedVars, dispVars, betVars, auxVars>>

SpecReconnect == InitSubscribed /\ [][NextReconnect]_vars

(* The reconnect sequences of session i that have passed the test of       *)
(* isReconnecting and have not returned yet.                                *)
ReconnectsInProgress(i) == {r \in 1..Len(recon) : recon[r].ws = i /\ recon[r].pc # "start"}

(* C35: for each session at most one reconnect sequence (close, wait 60 s,  *)
(* reopen) is in progress at any time, whatever triggers it.                *)
C35_OneReconnectInProgress ==
    \A i \in 1..Len(ws) : Cardinality(ReconnectsInProgress(i)) <= 1

(* C36: the online flag of a broadcaster changes from unset to set only in  *)
(* an online check in which a stream probe was issued and returned a live   *)
(* stream.                                                                  *)
C36_OnlineOnlyAfterLiveProbe ==
    [][\A s \in Broadcasters :
            (~streamers[s].IsOnline /\ streamers'[s].IsOnline)
                => streamers'[s].probe = "live"]_vars

(* C37: for each prediction event the history ledger is updated for its    *)
(* result at most once, even if the prediction-result message is delivered  *)
(* again more than a second after the first delivery.                       *)
C37_ResultBookedOnce ==
    \A e \in Events : predictions[e] # NoEvent => predictions[e].historyUpdates <= 1

(* The step starts a deferred bet for event e.                              *)
SchedulesBet(e) == Len(bets') > Len(bets) /\ bets'[Len(bets')].event = e

SubmissionsFor(log, e) == {k \in 1..Len(log) : log[k].event = e}

(* C38: for each event id at most one deferred bet is ever scheduled and at *)
(* most one MakePrediction submission is ever issued, even if event-created *)
(* for the id is delivered more than once: a bet is scheduled only for an   *)
(* id that is not tracked, a tracked id stays tracked, and the submissions  *)
(* hold at most one for the id.                                             *)
C38_OneBetPerEvent ==
    [][\A e \in Events :
            /\ SchedulesBet(e) => predictions[e] = NoEvent
            /\ predictions[e] # NoEvent => predictions'[e] # NoEvent
            /\ Cardinality(SubmissionsFor(submissions', e)) <= 1]_vars

(* event-created was dispatched twice for an event and its bet was posted.  *)
C38_CreatedTwiceOneSubmission ==
    \E e \in Events :
        /\ Cardinality({k \in 1..Len(frameLog) :
                            /\ frameLog[k].Type = "event-created"
                            /\ frameLog[k].dispatched
                            /\ frameLog[k].Data.event.id = e}) >= 2
        /\ Cardinality(SubmissionsFor(submissions, e)) = 1

(* C39: every MakePrediction submission carries an amount of at least 10,  *)
(* at most MaxPoints and at most the points of the broadcaster read when    *)
(* the bet was calculated, with or without stealth mode.                    *)
C39_AmountWithinLimits ==
    betCalc.submitted =>
        /\ 10 <= betCalc.Decision.Amount
        /\ betCalc.Decision.Amount <= betCalc.Settings.MaxPoints
        /\ betCalc.Decision.Amount <= betCalc.points

(* A submission in stealth mode whose amount was lowered below the top bet  *)
(* of the outcome, for a balance above the cap.                             *)
C39_StealthSubmission ==
    /\ betCalc.submitted
    /\ betCalc.Settings.StealthMode
    /\ betCalc.points > betCalc.Settings.MaxPoints
    /\ betCalc.Decision.Amount < CalculateAmount(betCalc.Settings, betCalc.points)

(* A submission without stealth mode whose amount is the cap.               *)
C39_CappedSubmission ==
    /\ betCalc.submitted
    /\ ~betCalc.Settings.StealthMode
    /\ betCalc.points > betCalc.Settings.MaxPoints
    /\ betCalc.Decision.Amount = betCalc.Settings.MaxPoints

(* The points-earned and points-spent frames read for channel s so far.     *)
PointsFramesRead(s) ==
    {k \in 1..Len(frameLog) : /\ frameLog[k].Type \in {"points-earned", "points-spent"}
                              /\ frameLog[k].ChannelID = s}

(* Every frame sent was read and handled, and no goal contribution has      *)
(* touched the points of s.                                                 *)
OnlyPointsFrames(s) ==
    /\ \A i \in 1..NumClients : wire[i] = <<>> /\ handling[i] = Idle
    /\ \A g \in Goals : contributed[s][g] = 0

(* C40: after the pool has processed a sequence of points-earned and        *)
(* points-spent frames for a broadcaster, and nothing else has changed the  *)
(* points, they equal the balance of the last frame received, also when     *)
(* frames arrive less than a second apart.                                  *)
C40_PointsOfLastFrame ==
    \A s \in Broadcasters :
        (PointsFramesRead(s) # {} /\ OnlyPointsFrames(s)) =>
            LET last == CHOOSE k \in PointsFramesRead(s) : \A j \in PointsFramesRead(s) : j <= k
            IN GetChannelPoints(streamers[s]) = frameLog[last].Data.balance

=============================================================================
